---- MODULE Spec2Model ----
(***************************************************************************)
(* State-machine model of arch/arm/mm/ioremap.c: the leaf populator        *)
(* (remap_area_pte/pmd/pages), the block mapper (unmap_area_sections,      *)
(* remap_area_sections, remap_area_supersections), the kvm_seq             *)
(* synchroniser (__check_kvm_seq), and the entry points __arm_ioremap,     *)
(* __arm_ioremap_pfn, __arm_multi_strided_ioremap, ioremap_page and        *)
(* __iounmap.                                                              *)
(*                                                                         *)
(* Addresses are byte addresses in a scaled-down geometry that keeps the   *)
(* ratios the code relies on: an unsigned long has WORD_BITS bits, a page   *)
(* is 2^PAGE_SHIFT bytes, a hardware section (SZ_1M) 2^SECTION_SHIFT, a    *)
(* first-level Linux entry (PGDIR_SIZE, two sections) 2^PGDIR_SHIFT and a  *)
(* supersection (sixteen sections) 2^SUPERSECTION_SHIFT.  All arithmetic   *)
(* on unsigned long wraps modulo 2^WORD_BITS as it does in the C code.     *)
(***************************************************************************)
EXTENDS Integers, Sequences, FiniteSets, TLC

\* ------------------------------------------------------------ geometry
WORD_BITS == 8
PAGE_SHIFT == 1
SECTION_SHIFT == 2
PGDIR_SHIFT == 3
SUPERSECTION_SHIFT == 6

WORD == 2 ^ WORD_BITS
PAGE_SIZE == 2 ^ PAGE_SHIFT
SZ_1M == 2 ^ SECTION_SHIFT
PGDIR_SIZE == 2 ^ PGDIR_SHIFT
SUPERSECTION_SIZE == 2 ^ SUPERSECTION_SHIFT
\* an unsigned int is as wide as an unsigned long here
UINT_MOD == 2 ^ WORD_BITS
\* 0x100000: the first frame number whose physical address needs more than
\* WORD_BITS bits.
HIGH_PFN == 2 ^ (WORD_BITS - PAGE_SHIFT)

VMALLOC_START == 64
VMALLOC_END == 200
MAX_SECTIONS == 4
ENOMEM == 12
NULL == 0

\* ------------------------------------------------------------ bounds
MaxAreas == 2
MaxAttempts == 2
MaxCalls == 3
MaxRefresh == 1
\* the history pass counts the memcpys of one __check_kvm_seq up to MaxPass
MaxPass == 3

\* ------------------------------------------------------------ arithmetic
Mod(x) == x % WORD
AlignDown(x, a) == x - (x % a)
PAGE_ALIGN(x) == AlignDown(Mod(x + PAGE_SIZE - 1), PAGE_SIZE)
__pfn_to_phys(pfn) == Mod(pfn * PAGE_SIZE)
__phys_to_pfn(phys) == phys \div PAGE_SIZE

RECURSIVE BitOr(_, _)
BitOr(a, b) ==
    IF a = 0 THEN b
    ELSE IF b = 0 THEN a
    ELSE (IF (a % 2) + (b % 2) > 0 THEN 1 ELSE 0) + 2 * BitOr(a \div 2, b \div 2)

pgd_index(addr) == addr \div PGDIR_SIZE
\* index of the first of the two hardware entries of the pgd entry of addr
pmd_offset(addr) == 2 * pgd_index(addr)
pte_index(addr) == addr \div PAGE_SIZE
pgd_addr_end(addr, end) ==
    LET boundary == Mod(AlignDown(addr + PGDIR_SIZE, PGDIR_SIZE))
    IN  IF Mod(boundary - 1) < Mod(end - 1) THEN boundary ELSE end

SectIdx == (VMALLOC_START \div SZ_1M) .. ((VMALLOC_END \div SZ_1M) - 1)
PageIdx == (VMALLOC_START \div PAGE_SIZE) .. ((VMALLOC_END \div PAGE_SIZE) - 1)

\* ------------------------------------------------------------ entries
PmdNone == [t |-> "none", val |-> 0, prot |-> "-"]
PmdTable == [t |-> "table", val |-> 0, prot |-> "-"]
PmdSect(val, prot) == [t |-> "sect", val |-> val, prot |-> prot]
PmdSuper(val, prot) == [t |-> "super", val |-> val, prot |-> prot]
PteNone == [v |-> FALSE, pfn |-> 0, prot |-> "-"]
pfn_pte(pfn, prot) == [v |-> TRUE, pfn |-> pfn, prot |-> prot]
pmd_none(e) == e.t = "none"
pte_none(e) == ~e.v

MT_DEVICE == 0
MT_UNKNOWN == 9
NoType == [prot_pte |-> "-", prot_sect |-> "-"]
get_mem_type(mtype) ==
    IF mtype = MT_DEVICE
    THEN [prot_pte |-> "pte_device", prot_sect |-> "sect_device"]
    ELSE NoType

MMs == {"mmA", "mmB"}

\* The tasks that can be inside a call at the same time, and what a task
\* knows in the middle of a call: the line it is at (pc), the call and its
\* arguments, the area, the mapper's locals addr, end and phys_addr (or pfn),
\* the entry pmd read at line 155, the value loaded by kvm_seq++, err, which
\* caller unmap_area_sections returns to, and what it has done so far.
Tasks == {"t1", "t2"}
NoTask ==
    [pc |-> "idle", op |-> "none", args |-> <<>>, base |-> NULL, asize |-> 0,
     gran |-> "none", addr |-> 0, end |-> 0, phys |-> 0,
     e |-> [t |-> "none", val |-> 0, prot |-> "-"], seq |-> 0, err |-> 0,
     from |-> "none", trace |-> <<>>]

VARIABLES
    pmd,        \* init_mm first-level hardware entries, by section index
    pte,        \* leaf entries of the allocated pte tables, by page index
    kvm_seq,    \* init_mm.context.kvm_seq
    mm_pgd,     \* each mm's copy of the vmalloc slice of first-level entries
    mm_seq,     \* each mm's context.kvm_seq
    active,     \* current->active_mm
    vmlist,     \* reserved areas (VM_IOREMAP)
    smp,        \* CONFIG_SMP
    xp,         \* (cpu_architecture() >= ARMv6 && CR_XP) || cpu_is_xsc3()
    domain_io,  \* DOMAIN_IO
    bug,        \* BUG() was hit
    wild,       \* a store went through a section entry taken for a table
    kvm_total,  \* history: how many times kvm_seq was incremented
    mm_total,   \* history: kvm_total when the value in mm_seq was read
    rf,         \* per mm: a __check_kvm_seq(mm) under way, its place and seq
    ncalls,     \* calls made so far
    last,       \* the last call: arguments, result, what it did
    task,       \* per task: the call it is in the middle of, line by line
    vmlist_lock, \* the task holding vmlist_lock for writing, or "none"
    cp,         \* per mm: how far the memcpy of __check_kvm_seq has got
    snaps,      \* history: per mm inside __check_kvm_seq, the init_mm
                \* slices that have existed since it last read kvm_seq
    pass        \* history: per mm, the memcpys its last __check_kvm_seq
                \* has completed, and kvm_total when it was entered

vars == <<pmd, pte, kvm_seq, mm_pgd, mm_seq, active, vmlist, smp, xp,
          domain_io, bug, wild, kvm_total, mm_total, rf, ncalls,
          last, task, vmlist_lock, cp, snaps, pass>>

\* ------------------------------------------------------------ machine
\* The operators below thread a record M through the code of one call:
\*   pmd, pte, seq, mm_pgd, mm_seq, total, mm_total : the state being changed
\*   bug      : BUG() reached (the call never returns)
\*   wild     : stores made through a block entry taken for a table pointer
\*   err      : the value the populator returns (0 or -ENOMEM)
\*   att      : pte-table allocations attempted so far in this call
\*   fails    : the attempts (by number) that the page allocator refuses
\*   wildNone : what a read through such a stray pointer yields (empty or not)
\*   cleared  : non-empty first-level entries cleared by teardown in this call
\*   touched  : section indices written or cleared by this call
Machine(fails, wildNone) ==
    [pmd |-> pmd, pte |-> pte, seq |-> kvm_seq, mm_pgd |-> mm_pgd,
     mm_seq |-> mm_seq, total |-> kvm_total, mm_total |-> mm_total,
     bug |-> FALSE, wild |-> FALSE,
     err |-> 0, att |-> 0, fails |-> fails, wildNone |-> wildNone,
     cleared |-> 0, touched |-> {}]

\* memcpy(pgd_offset(mm, VMALLOC_START), pgd_offset_k(VMALLOC_START), ...)
SliceIdx ==
    {s \in SectIdx :
        /\ s \div 2 >= pgd_index(VMALLOC_START)
        /\ s \div 2 < pgd_index(VMALLOC_END)}

\* the init_mm entries the memcpy reads
Slice(pm) == [s \in SliceIdx |-> pm[s]]
SliceStart == 2 * pgd_index(VMALLOC_START)
SliceEnd == 2 * pgd_index(VMALLOC_END)

\* the part of the memcpy of lines 126-129 that copies entries lo .. hi - 1
memcpy_pgd(M, mm, lo, hi) ==
    [M EXCEPT
        !.mm_pgd[mm] = [s \in SectIdx |->
                           IF s \in SliceIdx /\ lo <= s /\ s < hi
                           THEN M.pmd[s] ELSE M.mm_pgd[mm][s]]]

\* lines 126-130 of __check_kvm_seq: the memcpy and the store of the value
\* seq that line 125 read (when the counter stood at total)
kvm_seq_store(M, mm, seq, total) ==
    [M EXCEPT
        !.mm_pgd[mm] = [s \in SectIdx |->
                           IF s \in SliceIdx THEN M.pmd[s] ELSE M.mm_pgd[mm][s]],
        !.mm_seq[mm] = seq,
        !.mm_total[mm] = total]

\* kvm_seq_finish that stores seq without copying the rest
kvm_seq_finish_no_copy(M, mm, from, seq, total) ==
    [M EXCEPT !.mm_seq[mm] = seq, !.mm_total[mm] = total]

\* the same when the memcpy has already copied the entries below from
kvm_seq_finish(M, mm, from, seq, total) ==
    [memcpy_pgd(M, mm, from, SliceEnd) EXCEPT
        !.mm_seq[mm] = seq,
        !.mm_total[mm] = total]

\* __check_kvm_seq that records the value of kvm_seq and copies nothing
__check_kvm_seq_no_copy(M, mm) ==
    [M EXCEPT !.mm_seq[mm] = M.seq, !.mm_total[mm] = M.total]

\* __check_kvm_seq(mm) where nothing can run in between (the context switch,
\* and the call at the end of unmap_area_sections): one pass of the do-while
__check_kvm_seq(M, mm) == kvm_seq_store(M, mm, M.seq, M.total)

\* init_mm.context.kvm_seq++ on an unsigned int
kvm_seq_inc(M) ==
    [M EXCEPT !.seq = (M.seq + 1) % UINT_MOD, !.total = M.total + 1]

\* pmd_clear(pmdp): both hardware entries of the pgd entry
pmd_clear(M, s) ==
    [M EXCEPT !.pmd = [x \in SectIdx |->
                          IF x = s \/ x = s + 1 THEN PmdNone ELSE M.pmd[x]],
              !.touched = M.touched \cup {s, s + 1}]

\* pte_free_kernel(&init_mm, pmd_page_vaddr(pmd)): the table of pgd entry g
pte_free_kernel(M, g) ==
    [M EXCEPT !.pte = [p \in PageIdx |->
                          IF p \div (PGDIR_SIZE \div PAGE_SIZE) = g THEN PteNone
                          ELSE M.pte[p]]]

\* clear_one_pgd without the kvm_seq++
clear_one_pgd_no_inc(M, s) ==
    [pmd_clear(M, s) EXCEPT !.cleared = M.cleared + 1]

\* lines 164-165: pmd_clear() and kvm_seq++ for a non-empty entry
clear_one_pgd(M, s) ==
    [kvm_seq_inc(pmd_clear(M, s)) EXCEPT !.cleared = M.cleared + 1]

\* the body of the do-while of unmap_area_sections
unmap_one_pgd(M, addr) ==
    LET s == pmd_offset(addr)
        e == M.pmd[s]
    IN  IF pmd_none(e) THEN M
        ELSE IF e.t = "table"
        THEN pte_free_kernel(clear_one_pgd(M, s), pgd_index(addr))
        ELSE clear_one_pgd(M, s)

\* the do-while after its first pass: while (addr < end)
RECURSIVE unmap_loop(_, _, _)
unmap_loop(M, addr, end) ==
    IF addr < end
    THEN unmap_loop(unmap_one_pgd(M, addr), Mod(addr + PGDIR_SIZE), end)
    ELSE M

\* lines 182-183: the caller's own mm is brought up to date at once
check_active_mm(M) ==
    IF M.mm_seq[active] # M.seq THEN __check_kvm_seq(M, active) ELSE M

unmap_area_sections(M, virt, size) ==
    check_active_mm(
        unmap_loop(unmap_one_pgd(M, virt), Mod(virt + PGDIR_SIZE),
                   Mod(virt + AlignDown(size, SZ_1M))))

set_pmd(M, s, e) ==
    [M EXCEPT !.pmd[s] = e, !.touched = M.touched \cup {s}]

\* the body of the do-while of remap_area_sections: two sections
sections_pair(M, addr, pfn, type) ==
    set_pmd(set_pmd(M, pmd_offset(addr),
                    PmdSect(__pfn_to_phys(pfn), type.prot_sect)),
            pmd_offset(addr) + 1,
            PmdSect(__pfn_to_phys(Mod(pfn + (SZ_1M \div PAGE_SIZE))),
                    type.prot_sect))

RECURSIVE sections_loop(_, _, _, _, _)
sections_loop(M, addr, end, pfn, type) ==
    IF addr < end
    THEN sections_loop(sections_pair(M, addr, pfn, type),
                       Mod(addr + PGDIR_SIZE), end,
                       Mod(pfn + 2 * (SZ_1M \div PAGE_SIZE)), type)
    ELSE M

remap_area_sections(M, virt, pfn, size, type) ==
    sections_loop(
        sections_pair(unmap_area_sections(M, virt, size), virt, pfn, type),
        Mod(virt + PGDIR_SIZE), Mod(virt + size),
        Mod(pfn + 2 * (SZ_1M \div PAGE_SIZE)), type)

super_pmd_val(pfn) ==
    BitOr(__pfn_to_phys(pfn), ((pfn \div HIGH_PFN) % 16) * SZ_1M)

RECURSIVE super_inner(_, _, _, _, _)
super_inner(M, addr, i, val, type) ==
    IF i = 8 THEN M
    ELSE LET s == pmd_offset(addr)
             M1 == set_pmd(M, s, PmdSuper(val, type.prot_sect))
             M2 == set_pmd(M1, s + 1, PmdSuper(val, type.prot_sect))
         IN  super_inner(M2, Mod(addr + PGDIR_SIZE), i + 1, val, type)

RECURSIVE supersections_loop(_, _, _, _, _)
supersections_loop(M, addr, end, pfn, type) ==
    IF addr < end
    THEN supersections_loop(
             super_inner(M, addr, 0, super_pmd_val(pfn), type),
             Mod(addr + 8 * PGDIR_SIZE), end,
             Mod(pfn + (SUPERSECTION_SIZE \div PAGE_SIZE)), type)
    ELSE M

remap_area_supersections(M, virt, pfn, size, type) ==
    supersections_loop(
        super_inner(unmap_area_sections(M, virt, size), virt, 0,
                    super_pmd_val(pfn), type),
        Mod(virt + 8 * PGDIR_SIZE), Mod(virt + size),
        Mod(pfn + (SUPERSECTION_SIZE \div PAGE_SIZE)), type)

\* ------------------------------------------------------------ populator
RECURSIVE pte_loop(_, _, _, _, _)
pte_loop(M, addr, end, phys_addr, type) ==
    LET p == pte_index(addr) IN
    IF ~pte_none(M.pte[p]) THEN [M EXCEPT !.bug = TRUE]
    ELSE LET M1 == [M EXCEPT !.pte[p] =
                        pfn_pte(phys_addr \div PAGE_SIZE, type.prot_pte)]
             next == Mod(addr + PAGE_SIZE)
         IN  IF next # end
             THEN pte_loop(M1, next, end, Mod(phys_addr + PAGE_SIZE), type)
             ELSE M1

\* __pmd_populate: both hardware entries point into the new (zeroed) table
pmd_populate_kernel(M, s) ==
    [M EXCEPT !.pmd = [x \in SectIdx |->
                          IF x = s \/ x = s + 1 THEN PmdTable ELSE M.pmd[x]],
              !.touched = M.touched \cup {s, s + 1}]

\* remap_area_pte without the pte_none() test in its loop
RECURSIVE pte_loop_overwrite(_, _, _, _, _)
pte_loop_overwrite(M, addr, end, phys_addr, type) ==
    LET M1 == [M EXCEPT !.pte[addr \div PAGE_SIZE] =
                   pfn_pte(phys_addr \div PAGE_SIZE, type.prot_pte)]
        next == Mod(addr + PAGE_SIZE)
    IN  IF next # end
        THEN pte_loop_overwrite(M1, next, end, Mod(phys_addr + PAGE_SIZE), type)
        ELSE M1

remap_area_pte_overwrite(M, addr, end, phys_addr, type) ==
    LET s == pmd_offset(addr)
        e == M.pmd[s]
    IN  IF pmd_none(e)
        THEN LET M1 == [M EXCEPT !.att = M.att + 1]
             IN  IF M1.att \in M1.fails
                 THEN [M1 EXCEPT !.err = 0 - ENOMEM]
                 ELSE pte_loop_overwrite(pmd_populate_kernel(M1, s), addr, end,
                                         phys_addr, type)
        ELSE IF e.t = "table"
        THEN pte_loop_overwrite(M, addr, end, phys_addr, type)
        ELSE IF M.wildNone THEN [M EXCEPT !.wild = TRUE]
        ELSE [M EXCEPT !.bug = TRUE]

remap_area_pte(M, addr, end, phys_addr, type) ==
    LET s == pmd_offset(addr)
        e == M.pmd[s]
    IN  IF pmd_none(e)
        THEN LET M1 == [M EXCEPT !.att = M.att + 1]
             IN  IF M1.att \in M1.fails
                 THEN [M1 EXCEPT !.err = 0 - ENOMEM]
                 ELSE pte_loop(pmd_populate_kernel(M1, s), addr, end,
                               phys_addr, type)
        ELSE IF e.t = "table"
        THEN pte_loop(M, addr, end, phys_addr, type)
        \* pte_offset_kernel() of a block entry: the "table" is whatever lies
        \* at the block's physical base.  Its slots read as empty (the stores
        \* land there) or as occupied (BUG).
        ELSE IF M.wildNone THEN [M EXCEPT !.wild = TRUE]
        ELSE [M EXCEPT !.bug = TRUE]

\* remap_area_pmd: pmd_alloc() of a folded level cannot fail and the loop
\* runs once, pmd_addr_end(addr, end) being end.
remap_area_pmd(M, addr, end, phys_addr, type) ==
    remap_area_pte(M, addr, end, phys_addr, type)

\* the do-while of remap_area_pages; it is entered with err = 0 and
\* addr < end, and left on err, on BUG() and when addr reaches end
RECURSIVE pages_loop(_, _, _, _, _)
pages_loop(M, addr, end, phys_addr, type) ==
    IF M.bug \/ M.err # 0 \/ addr = end THEN M
    ELSE pages_loop(
             remap_area_pmd(M, addr, pgd_addr_end(addr, end), phys_addr, type),
             pgd_addr_end(addr, end), end,
             Mod(phys_addr + pgd_addr_end(addr, end) - addr), type)

remap_area_pages(M, start, pfn, size, type) ==
    LET end == Mod(start + size)
        M0 == [M EXCEPT !.err = 0]
    IN  IF start >= end THEN [M0 EXCEPT !.bug = TRUE]
        ELSE pages_loop(M0, start, end, __pfn_to_phys(pfn), type)

\* ------------------------------------------------------------ areas
\* addr, size, flags & VM_ARM_SECTION_MAPPING of the vm_struct; by and off
\* remember which entry point reserved it and the sub-page offset of the
\* pointer it handed out.
Area(addr, size, block, by, off) ==
    [addr |-> addr, size |-> size, block |-> block, by |-> by, off |-> off]
Overlaps(a, lo, hi) == a.addr < hi /\ lo < a.addr + a.size

\* get_vm_area(size, VM_IOREMAP): the bases it may return for a request of
\* size bytes (the area takes one guard page more); NULL when it fails.
get_vm_area(vm, size) ==
    {NULL} \cup
    {b \in VMALLOC_START..VMALLOC_END :
        /\ b % PAGE_SIZE = 0
        /\ PAGE_ALIGN(size) # 0
        /\ Cardinality(vm) < MaxAreas
        /\ b >= VMALLOC_START
        /\ b + PAGE_ALIGN(size) + PAGE_SIZE <= VMALLOC_END
        /\ \A a \in vm : ~Overlaps(a, b, b + PAGE_ALIGN(size) + PAGE_SIZE)}

\* unmap_vm_area() over one area: leaf entries are cleared; a first-level
\* entry that is no table pointer is "bad" and is cleared (pmd_clear_bad).
vunmap_range(M, lo, hi) ==
    LET badPgd == {g \in {s \div 2 : s \in SectIdx} :
                      /\ g * PGDIR_SIZE < hi /\ lo < (g + 1) * PGDIR_SIZE
                      /\ M.pmd[2 * g].t \in {"sect", "super"}}
    IN  [M EXCEPT
            !.pmd = [s \in SectIdx |->
                        IF s \div 2 \in badPgd THEN PmdNone ELSE M.pmd[s]],
            !.pte = [p \in PageIdx |->
                        IF /\ p * PAGE_SIZE >= lo /\ p * PAGE_SIZE < hi
                           /\ M.pmd[pmd_offset(p * PAGE_SIZE)].t = "table"
                        THEN PteNone ELSE M.pte[p]]]

\* vunmap(addr): [M |-> ..., vm |-> ...] after the area at addr, if any, is
\* unlinked and its range (without the guard page) unmapped.
vunmap(M, vm, addr) ==
    IF \E a \in vm : a.addr = addr
    THEN LET a == CHOOSE a \in vm : a.addr = addr
         IN  [M |-> vunmap_range(M, a.addr, a.addr + a.size - PAGE_SIZE),
              vm |-> vm \ {a}]
    ELSE [M |-> M, vm |-> vm]

\* ------------------------------------------------------------ map
\* The choice of lines 285-297: "super", "section" or "page".
\* granularity without the pfn >= 0x100000 test
granularity_any_pfn(pfn, size, addr) ==
    IF smp THEN "page"
    ELSE IF /\ domain_io = 0
            /\ xp
            /\ BitOr(BitOr(__pfn_to_phys(pfn), size), addr)
                 % SUPERSECTION_SIZE = 0
         THEN "super"
    ELSE IF BitOr(BitOr(__pfn_to_phys(pfn), size), addr) % PGDIR_SIZE = 0
         THEN "section"
    ELSE "page"

granularity(pfn, size, addr) ==
    LET bits == BitOr(BitOr(__pfn_to_phys(pfn), size), addr) IN
    IF /\ ~smp
       /\ domain_io = 0
       /\ xp
       /\ pfn >= HIGH_PFN
       /\ bits % SUPERSECTION_SIZE = 0
    THEN "super"
    ELSE IF ~smp /\ bits % PGDIR_SIZE = 0 THEN "section"
    ELSE "page"

\* err = remap_area_*(addr, pfn, size, type); the block mappers return 0.
remap_area(M, gran, addr, pfn, size, type) ==
    CASE gran = "super" ->
            [remap_area_supersections(M, addr, pfn, size, type) EXCEPT !.err = 0]
      [] gran = "section" ->
            [remap_area_sections(M, addr, pfn, size, type) EXCEPT !.err = 0]
      [] OTHER -> remap_area_pages(M, addr, pfn, size, type)

\* What one call leaves behind: the machine, the area list, the value
\* returned (NULL on failure), the base and size of the area it reserved
\* (NULL when it reserved none), the granularity chosen and the error the
\* mapper returned.
Outcome(M, vm, ret, base, asize, gran, log) ==
    [M |-> M, vm |-> vm, ret |-> ret, base |-> base, asize |-> asize,
     gran |-> gran, log |-> log]

\* lines 299-305 and 444-451: BUG() never returns; on err the area is
\* released with vunmap(); else the pointer ret is returned
map_result(M, vm, ret, base, asize, gran, log) ==
    IF M.bug THEN Outcome(M, vm, NULL, base, asize, gran, log)
    ELSE IF M.err # 0
    THEN Outcome(vunmap(M, vm, base).M, vunmap(M, vm, base).vm, NULL, base,
                 asize, gran, log)
    ELSE Outcome(M, vm, ret, base, asize, gran, log)

\* lines 285-305 once the granularity is known
map_area(M, gran, pfn, offset, asize, type, base) ==
    map_result(remap_area(M, gran, base, pfn, asize, type),
               vmlist \cup {Area(base, asize + PAGE_SIZE, gran # "page", "map",
                                 offset % PAGE_SIZE)},
               Mod(offset + base), base, asize, gran, <<>>)

\* __arm_ioremap_pfn_caller; base is what get_vm_area_caller() returns.
__arm_ioremap_pfn_caller(M, pfn, offset, size, mtype, base) ==
    LET type == get_mem_type(mtype)
        asize == PAGE_ALIGN(Mod(offset + size))
        Fail == Outcome(M, vmlist, NULL, NULL, asize, "none", <<>>)
    IN  IF pfn >= HIGH_PFN /\ __pfn_to_phys(pfn) % SUPERSECTION_SIZE # 0
        THEN Fail
        ELSE IF type = NoType THEN Fail
        ELSE IF base = NULL THEN Fail
        ELSE map_area(M, granularity(pfn, asize, base), pfn, offset, asize,
                      type, base)

\* __arm_ioremap_caller: the zero-size and wrap-around checks, then the above.
__arm_ioremap_caller(M, phys_addr, size, mtype, base) ==
    LET offset == phys_addr % PAGE_SIZE
        pfn == __phys_to_pfn(phys_addr)
        last_addr == Mod(phys_addr + size - 1)
    IN  IF size = 0 \/ last_addr < phys_addr
        THEN Outcome(M, vmlist, NULL, NULL, 0, "none", <<>>)
        ELSE __arm_ioremap_pfn_caller(M, pfn, offset, size, mtype, base)

\* ------------------------------------------------------------ map_strided
Region(phys_addr, phys_size, phys_stride, virt_stride) ==
    [phys_addr |-> phys_addr, phys_size |-> phys_size,
     phys_stride |-> phys_stride, virt_stride |-> virt_stride]

\* lines 373-376 and 422-425: a stride that is absent or zero is the size
pstride_of(r) == IF r.phys_stride # 0 THEN r.phys_stride ELSE r.phys_size
vstride_of(r) == IF r.virt_stride # 0 THEN r.virt_stride ELSE r.phys_size

\* lines 378-406: TRUE when the loop body returns NULL for region r
region_rejected(r) ==
    LET pstride == pstride_of(r)
        vstride == vstride_of(r)
    IN  \/ (pstride = 0) # (vstride = 0)
        \/ BitOr(BitOr(r.phys_addr, r.phys_size), BitOr(vstride, pstride))
               % PAGE_SIZE # 0
        \/ r.phys_size = 0
        \/ vstride > pstride
        \/ (pstride # 0 /\ r.phys_size % pstride # 0)
        \/ Mod(r.phys_addr + r.phys_size - 1) < r.phys_addr
        \/ /\ __phys_to_pfn(r.phys_addr) >= HIGH_PFN
           /\ __pfn_to_phys(__phys_to_pfn(r.phys_addr)) % SUPERSECTION_SIZE # 0

RECURSIVE strided_total(_, _)
strided_total(regions, i) ==
    IF i > Len(regions) THEN 0
    ELSE Mod((regions[i].phys_size \div pstride_of(regions[i]))
                 * vstride_of(regions[i])
             + strided_total(regions, i + 1))

\* The strided loops thread S: the machine, the virtual cursor addr_i,
\* pfns[i], whether the area got VM_ARM_SECTION_MAPPING, and the steps taken.
\* Lines 439-440 after the mapper of one step, started with nothing marked
\* as touched, has left machine M1; the step's record keeps the first-level
\* entries it touched and the leaf entries it changed.
strided_advance(S, M1, r, i, j, gran) ==
    [M |-> [M1 EXCEPT !.touched = S.M.touched \cup M1.touched],
     addr_i |-> IF M1.bug THEN S.addr_i ELSE Mod(S.addr_i + vstride_of(r)),
     pfn |-> Mod(S.pfn + __phys_to_pfn(pstride_of(r))),
     block |-> S.block \/ gran # "page",
     log |-> Append(S.log, [i |-> i, j |-> j, addr |-> S.addr_i,
                            pfn |-> S.pfn, gran |-> gran,
                            err |-> M1.err, bug |-> M1.bug,
                            vstride |-> vstride_of(r),
                            touched |-> M1.touched,
                            pages |-> {p \in PageIdx :
                                          M1.pte[p] # S.M.pte[p]}])]

Untouched(M) == [M EXCEPT !.touched = {}]

\* strided_map whose section steps are given phys_size[i], as the
\* supersection steps are
strided_map_phys_size(S, r, i, j, type, gran) ==
    strided_advance(
        S,
        CASE gran \in {"super", "section"} ->
                 [remap_area_sections(Untouched(S.M), S.addr_i, S.pfn,
                                      r.phys_size, type) EXCEPT !.err = 0]
          [] OTHER ->
                 remap_area_pages(Untouched(S.M), S.addr_i, S.pfn,
                                  vstride_of(r), type),
        r, i, j, gran)

\* lines 428-438: the mapper of one step; supersections get phys_size[i]
strided_map(S, r, i, j, type, gran) ==
    strided_advance(
        S,
        CASE gran = "super" ->
                 [remap_area_supersections(Untouched(S.M), S.addr_i, S.pfn,
                                           r.phys_size, type) EXCEPT !.err = 0]
          [] gran = "section" ->
                 [remap_area_sections(Untouched(S.M), S.addr_i, S.pfn,
                                      vstride_of(r), type) EXCEPT !.err = 0]
          [] OTHER ->
                 remap_area_pages(Untouched(S.M), S.addr_i, S.pfn,
                                  vstride_of(r), type),
        r, i, j, gran)

\* One pass of the body of the j loop (lines 427-441) for region i.
strided_step(S, r, i, j, type) ==
    strided_map(S, r, i, j, type, granularity(S.pfn, vstride_of(r), S.addr_i))

RECURSIVE strided_inner(_, _, _, _, _)
strided_inner(S, r, i, j, type) ==
    IF j >= r.phys_size \/ S.M.bug THEN S
    ELSE strided_inner(strided_step(S, r, i, j, type), r, i,
                       Mod(j + pstride_of(r)), type)

RECURSIVE strided_outer(_, _, _, _)
strided_outer(S, regions, i, type) ==
    IF i > Len(regions) \/ S.M.err # 0 \/ S.M.bug THEN S
    ELSE strided_outer(
             strided_inner([S EXCEPT !.pfn = __phys_to_pfn(regions[i].phys_addr)],
                           regions[i], i, 0, type),
             regions, i + 1, type)

\* lines 444-451 once the loops have left S
strided_result(S, base, total_size) ==
    map_result(S.M,
               vmlist \cup {Area(base, PAGE_ALIGN(total_size) + PAGE_SIZE,
                                 S.block, "strided", 0)},
               base, base, total_size, "strided", S.log)

\* __arm_multi_strided_ioremap(sections, ...), the arrays given as the
\* sequence regions (sections = Len(regions)); base is what get_vm_area()
\* returns.
__arm_multi_strided_ioremap(M, regions, mtype, base) ==
    LET type == get_mem_type(mtype)
        Fail == Outcome(M, vmlist, NULL, NULL, 0, "none", <<>>)
    IN  IF Len(regions) > MAX_SECTIONS THEN Fail
        ELSE IF \E i \in 1..Len(regions) : region_rejected(regions[i]) THEN Fail
        ELSE IF type = NoType THEN Fail
        ELSE IF base = NULL THEN Fail
        ELSE strided_result(
                 strided_outer([M |-> [M EXCEPT !.err = 0], addr_i |-> base,
                                pfn |-> 0, block |-> FALSE, log |-> <<>>],
                               regions, 1, type),
                 base, strided_total(regions, 1))

\* ------------------------------------------------------------ unmap
\* line 481: vunmap() of the area found at addr, of mapped size asize
iounmap_result(M, addr, asize) ==
    Outcome(vunmap(M, vmlist, addr).M, vunmap(M, vmlist, addr).vm, NULL, addr,
            asize, "none", <<>>)

\* __iounmap that returns after the block teardown, without vunmap()
__iounmap_no_vunmap(M, io_addr) ==
    LET addr == AlignDown(io_addr, PAGE_SIZE)
        found == {a \in vmlist : a.addr = addr}
        asize == IF found = {} THEN 0
                 ELSE (CHOOSE a \in found : TRUE).size - PAGE_SIZE
    IN  Outcome(IF ~smp /\ \E a \in found : a.block
                THEN unmap_area_sections(M, addr, asize + PAGE_SIZE)
                ELSE M,
                vmlist, NULL, addr, asize, "none", <<>>)

\* __iounmap(io_addr)
__iounmap(M, io_addr) ==
    LET addr == AlignDown(io_addr, PAGE_SIZE)
        found == {a \in vmlist : a.addr = addr}
        asize == IF found = {} THEN 0
                 ELSE (CHOOSE a \in found : TRUE).size - PAGE_SIZE
    IN  iounmap_result(IF ~smp /\ \E a \in found : a.block
                       THEN unmap_area_sections(M, addr, asize + PAGE_SIZE)
                       ELSE M,
                       addr, asize)

\* ioremap_page(virt, phys, mtype): the populator's result
ioremap_page(M, virt, phys, type) ==
    remap_area_pages(M, virt, __phys_to_pfn(phys), PAGE_SIZE, type)

\* ------------------------------------------------------------ actions
NoCall ==
    [op |-> "none", args |-> <<>>, ret |-> NULL, returned |-> TRUE,
     base |-> NULL, asize |-> 0, gran |-> "none", err |-> 0, cleared |-> 0,
     touched |-> {}, log |-> <<>>]

CallRecord(op, args, R) ==
    [op |-> op, args |-> args, ret |-> R.ret, returned |-> ~R.M.bug,
     base |-> R.base, asize |-> R.asize, gran |-> R.gran, err |-> R.M.err,
     cleared |-> R.M.cleared, touched |-> R.M.touched, log |-> R.log]

\* snaps once init_mm's table has become pm
Seen(pm) ==
    [m \in MMs |->
        IF rf[m].pc = "idle" THEN snaps[m] ELSE snaps[m] \cup {Slice(pm)}]

Commit(R, rec) ==
    /\ pmd' = R.M.pmd
    /\ pte' = R.M.pte
    /\ kvm_seq' = R.M.seq
    /\ mm_pgd' = R.M.mm_pgd
    /\ mm_seq' = R.M.mm_seq
    /\ kvm_total' = R.M.total
    /\ mm_total' = R.M.mm_total
    /\ bug' = R.M.bug
    /\ wild' = (wild \/ R.M.wild)
    /\ vmlist' = R.vm
    /\ last' = rec
    /\ ncalls' = ncalls + 1
    /\ snaps' = Seen(R.M.pmd)
    /\ UNCHANGED <<active, smp, xp, domain_io, rf, task, vmlist_lock, cp,
                   pass>>

\* The state after a call that left R; of the allocation failures and stray
\* reads the call was run with, those it never met make no difference and
\* are left out.
CommitCall(op, args, R) ==
    /\ R.M.fails \subseteq 1..R.M.att
    /\ R.M.wildNone \/ R.M.bug
    /\ Commit(R, CallRecord(op, args, R))

\* __arm_ioremap(phys_addr, size, mtype), c = <<phys_addr, size, mtype>>;
\* base is the allocator's answer
ArmIoremap(c, base) ==
    /\ ~bug
    /\ ncalls < MaxCalls
    /\ base \in get_vm_area(vmlist, Mod((c[1] % PAGE_SIZE) + c[2]))
    /\ \E fails \in SUBSET (1..MaxAttempts), wn \in BOOLEAN :
           CommitCall("ioremap", c,
                      __arm_ioremap_caller(Machine(fails, wn), c[1], c[2],
                                           c[3], base))

\* __arm_ioremap_pfn(pfn, offset, size, mtype), c = <<pfn, offset, size, mtype>>
ArmIoremapPfn(c, base) ==
    /\ ~bug
    /\ ncalls < MaxCalls
    /\ base \in get_vm_area(vmlist, Mod(c[2] + c[3]))
    /\ \E fails \in SUBSET (1..MaxAttempts), wn \in BOOLEAN :
           CommitCall("ioremap_pfn", c,
                      __arm_ioremap_pfn_caller(Machine(fails, wn), c[1], c[2],
                                               c[3], c[4], base))

\* __arm_multi_strided_ioremap(Len(c[1]), ...), c = <<regions, mtype>>
ArmMultiStridedIoremap(c, base) ==
    /\ ~bug
    /\ ncalls < MaxCalls
    /\ base \in get_vm_area(vmlist, strided_total(c[1], 1))
    /\ \E fails \in SUBSET (1..MaxAttempts), wn \in BOOLEAN :
           CommitCall("strided", c,
                      __arm_multi_strided_ioremap(Machine(fails, wn), c[1],
                                                  c[2], base))

\* __iounmap() of a pointer a map call handed out and that is still mapped
IoUnmap ==
    /\ ~bug
    /\ ncalls < MaxCalls
    /\ \E a \in vmlist :
           CommitCall("iounmap", <<a.addr + a.off>>,
                      __iounmap(Machine({}, TRUE), a.addr + a.off))

\* the populator's result as the outcome of a call
page_result(M) == Outcome(M, vmlist, M.err, NULL, PAGE_SIZE, "page", <<>>)

\* ioremap_page(virt, phys, mtype), c = <<virt, phys>>
IoremapPage(c) ==
    /\ ~bug
    /\ ncalls < MaxCalls
    /\ \E fails \in SUBSET (1..MaxAttempts), wn \in BOOLEAN :
           CommitCall("ioremap_page", c,
                      page_result(ioremap_page(Machine(fails, wn), c[1], c[2],
                                               get_mem_type(MT_DEVICE))))

\* __check_kvm_seq(mm) called where other calls can run between its lines.
\* RefreshBegin is line 125 on entry, RefreshCopy lines 126-130,
\* RefreshCheck line 131 and, when the loop goes round, line 125 again.
Idle(n) == [pc |-> "idle", seq |-> 0, total |-> 0, n |-> n]
RefreshStep(mm, pc, seq, total, n) ==
    /\ rf' = [rf EXCEPT ![mm] = [pc |-> pc, seq |-> seq, total |-> total,
                                 n |-> n]]
    /\ last' = [NoCall EXCEPT !.op = "refresh", !.args = <<mm, pc>>]
    /\ UNCHANGED <<pmd, pte, kvm_seq, kvm_total, active, vmlist, smp, xp,
                   domain_io, bug, wild, ncalls, task, vmlist_lock>>

\* RefreshBegin that goes to the comparison of line 131 without a memcpy
RefreshBeginAtCheck(mm) ==
    /\ ~bug
    /\ rf[mm].pc = "idle"
    /\ rf[mm].n < MaxRefresh
    /\ RefreshStep(mm, "check", kvm_seq, kvm_total, rf[mm].n + 1)
    /\ snaps' = [snaps EXCEPT ![mm] = {Slice(pmd)}]
    /\ pass' = [pass EXCEPT ![mm] = [n |-> 0, t0 |-> kvm_total]]
    /\ UNCHANGED <<mm_pgd, mm_seq, mm_total, cp>>

RefreshBegin(mm) ==
    /\ ~bug
    /\ rf[mm].pc = "idle"
    /\ rf[mm].n < MaxRefresh
    /\ RefreshStep(mm, "copy", kvm_seq, kvm_total, rf[mm].n + 1)
    /\ snaps' = [snaps EXCEPT ![mm] = {Slice(pmd)}]
    /\ pass' = [pass EXCEPT ![mm] = [n |-> 0, t0 |-> kvm_total]]
    /\ UNCHANGED <<mm_pgd, mm_seq, mm_total, cp>>

\* the memcpy as far as entry k, other code running before it goes on
RefreshCopyPart(mm, k) ==
    /\ ~bug
    /\ rf[mm].pc = "copy"
    /\ cp[mm] < k
    /\ k < SliceEnd
    /\ mm_pgd' = memcpy_pgd(Machine({}, TRUE), mm, cp[mm], k).mm_pgd
    /\ cp' = [cp EXCEPT ![mm] = k]
    /\ RefreshStep(mm, "copy", rf[mm].seq, rf[mm].total, rf[mm].n)
    /\ UNCHANGED <<mm_seq, mm_total, snaps, pass>>

\* the rest of the memcpy and line 130
RefreshCopy(mm) ==
    /\ ~bug
    /\ rf[mm].pc = "copy"
    /\ LET M1 == kvm_seq_finish(Machine({}, TRUE), mm, cp[mm], rf[mm].seq,
                                rf[mm].total)
       IN  /\ mm_pgd' = M1.mm_pgd
           /\ mm_seq' = M1.mm_seq
           /\ mm_total' = M1.mm_total
    /\ cp' = [cp EXCEPT ![mm] = SliceStart]
    /\ RefreshStep(mm, "check", rf[mm].seq, rf[mm].total, rf[mm].n)
    /\ pass' = [pass EXCEPT ![mm].n = IF pass[mm].n < MaxPass
                                      THEN pass[mm].n + 1 ELSE MaxPass]
    /\ UNCHANGED snaps

\* RefreshCheck that leaves the loop whatever kvm_seq has become
RefreshCheckOnce(mm) ==
    /\ ~bug
    /\ rf[mm].pc = "check"
    /\ RefreshStep(mm, "idle", 0, 0, rf[mm].n)
    /\ snaps' = [snaps EXCEPT ![mm] = {}]
    /\ UNCHANGED <<mm_pgd, mm_seq, mm_total, cp, pass>>

RefreshCheck(mm) ==
    /\ ~bug
    /\ rf[mm].pc = "check"
    /\ IF rf[mm].seq # kvm_seq
       THEN /\ RefreshStep(mm, "copy", kvm_seq, kvm_total, rf[mm].n)
            /\ snaps' = [snaps EXCEPT ![mm] = {Slice(pmd)}]
       ELSE /\ RefreshStep(mm, "idle", 0, 0, rf[mm].n)
            /\ snaps' = [snaps EXCEPT ![mm] = {}]
    /\ UNCHANGED <<mm_pgd, mm_seq, mm_total, cp, pass>>

\* a context switch: mm becomes current->active_mm, refreshed when stale
SwitchMm(mm) ==
    /\ ~bug
    /\ ncalls < MaxCalls
    /\ mm # active
    /\ active' = mm
    /\ LET M1 == IF mm_seq[mm] # kvm_seq
                 THEN __check_kvm_seq(Machine({}, TRUE), mm)
                 ELSE Machine({}, TRUE)
       IN  /\ mm_pgd' = M1.mm_pgd
           /\ mm_seq' = M1.mm_seq
           /\ mm_total' = M1.mm_total
    /\ last' = [NoCall EXCEPT !.op = "switch", !.args = <<mm>>]
    /\ ncalls' = ncalls + 1
    /\ UNCHANGED <<pmd, pte, kvm_seq, kvm_total, vmlist, smp, xp, domain_io,
                   bug, wild, rf, task, vmlist_lock, cp, snaps, pass>>

\* ------------------------------------------------------------ tasks
\* The same calls taken a line at a time, so that two tasks and
\* __check_kvm_seq can run between each other's lines.  A step of task p
\* leaves init_mm as in M1 and the task as t1.
TaskStep(p, M1, t1) ==
    /\ pmd' = M1.pmd
    /\ pte' = M1.pte
    /\ kvm_seq' = M1.seq
    /\ kvm_total' = M1.total
    /\ snaps' = Seen(M1.pmd)
    /\ task' = [task EXCEPT ![p] = t1]
    /\ UNCHANGED <<active, smp, xp, domain_io, cp, pass>>

\* what most lines leave alone
TaskFrame ==
    UNCHANGED <<mm_pgd, mm_seq, mm_total, rf, vmlist, vmlist_lock, bug, wild,
                ncalls, last>>

Ev(t, e) == [t EXCEPT !.trace = Append(t.trace, e)]

\* the record of a call that task record t has finished with value ret
TaskRecord(t, ret) ==
    [NoCall EXCEPT !.op = t.op, !.args = t.args, !.ret = ret,
                   !.base = t.base, !.asize = t.asize, !.gran = t.gran,
                   !.err = t.err, !.log = t.trace]

\* lines 318-320, 268-273 and 281-282: the calls that return NULL at once
map_rejected(phys_addr, size, mtype, base) ==
    \/ size = 0
    \/ Mod(phys_addr + size - 1) < phys_addr
    \/ /\ __phys_to_pfn(phys_addr) >= HIGH_PFN
       /\ __pfn_to_phys(__phys_to_pfn(phys_addr)) % SUPERSECTION_SIZE # 0
    \/ get_mem_type(mtype) = NoType
    \/ base = NULL

\* the task record on entry to the mapper chosen at lines 285-297; a frame
\* number that __arm_ioremap computes is below 0x100000, so the choice is
\* between sections and pages
map_entered(c, base, asize, gran) ==
    [NoTask EXCEPT
        !.pc = IF gran = "page" THEN "pg_alloc" ELSE "td_flush",
        !.op = "ioremap", !.args = c, !.base = base, !.asize = asize,
        !.gran = gran, !.addr = base,
        !.end = IF gran = "page" THEN Mod(base + asize)
                ELSE Mod(base + AlignDown(asize, SZ_1M)),
        !.phys = IF gran = "page" THEN __pfn_to_phys(__phys_to_pfn(c[1]))
                 ELSE __phys_to_pfn(c[1]),
        !.from = "map"]

\* __arm_ioremap(c) as far as the mapper: lines 308-324 and 257-297
TaskMapBegin(p, c, base) ==
    /\ ~bug
    /\ task[p].pc = "idle"
    /\ ncalls < MaxCalls
    /\ vmlist_lock = "none"
    /\ base \in get_vm_area(vmlist, Mod((c[1] % PAGE_SIZE) + c[2]))
    /\ ncalls' = ncalls + 1
    /\ IF map_rejected(c[1], c[2], c[3], base)
       THEN /\ last' = [NoCall EXCEPT !.op = "ioremap", !.args = c]
            /\ UNCHANGED <<task, vmlist>>
       ELSE LET asize == PAGE_ALIGN(Mod((c[1] % PAGE_SIZE) + c[2]))
                gran == granularity(__phys_to_pfn(c[1]), asize, base)
            IN  /\ task' = [task EXCEPT ![p] = map_entered(c, base, asize, gran)]
                /\ vmlist' = vmlist \cup
                       {Area(base, asize + PAGE_SIZE, gran # "page", "map",
                             c[1] % PAGE_SIZE)}
                /\ UNCHANGED last
    /\ UNCHANGED <<pmd, pte, kvm_seq, kvm_total, mm_pgd, mm_seq, mm_total, rf,
                   active, smp, xp, domain_io, bug, wild, vmlist_lock, cp,
                   snaps, pass>>

\* ---- unmap_area_sections, lines 145-186
\* unmap_area_sections without line 150
TdNoFlush(p) ==
    /\ ~bug
    /\ task[p].pc = "td_flush"
    /\ TaskStep(p, Machine({}, TRUE), [task[p] EXCEPT !.pc = "td_read"])
    /\ TaskFrame

\* line 150
TdFlush(p) ==
    /\ ~bug
    /\ task[p].pc = "td_flush"
    /\ TaskStep(p, Machine({}, TRUE),
                Ev([task[p] EXCEPT !.pc = "td_read"], <<"flush_cache">>))
    /\ TaskFrame

\* lines 174-176: addr += PGDIR_SIZE; while (addr < end)
td_next(t) ==
    [t EXCEPT !.addr = Mod(t.addr + PGDIR_SIZE),
              !.pc = IF Mod(t.addr + PGDIR_SIZE) < t.end THEN "td_read"
                     ELSE "td_sync"]

\* lines 153-156: pmd = *pmdp; if (!pmd_none(pmd))
TdRead(p) ==
    /\ ~bug
    /\ task[p].pc = "td_read"
    /\ TaskStep(p, Machine({}, TRUE),
                IF pmd_none(pmd[pmd_offset(task[p].addr)])
                THEN td_next(Ev(task[p], <<"skip", pgd_index(task[p].addr)>>))
                ELSE [task[p] EXCEPT !.pc = "td_clear",
                                     !.e = pmd[pmd_offset(task[p].addr)]])
    /\ TaskFrame

\* line 164
TdClear(p) ==
    /\ ~bug
    /\ task[p].pc = "td_clear"
    /\ TaskStep(p, pmd_clear(Machine({}, TRUE), pmd_offset(task[p].addr)),
                Ev([task[p] EXCEPT !.pc = "td_inc"],
                   <<"clear", pgd_index(task[p].addr)>>))
    /\ TaskFrame

\* line 165, the load of init_mm.context.kvm_seq
TdIncLoad(p) ==
    /\ ~bug
    /\ task[p].pc = "td_inc"
    /\ TaskStep(p, Machine({}, TRUE),
                [task[p] EXCEPT !.pc = "td_inc2", !.seq = kvm_seq])
    /\ TaskFrame

\* the value line 165 stores: one more than it loaded
kvm_seq_put(M, seq) ==
    [M EXCEPT !.seq = (seq + 1) % UINT_MOD, !.total = M.total + 1]

\* TdIncStore without the test of line 170
TdIncStoreFree(p) ==
    /\ ~bug
    /\ task[p].pc = "td_inc2"
    /\ TaskStep(p, kvm_seq_put(Machine({}, TRUE), task[p].seq),
                Ev([task[p] EXCEPT !.pc = "td_free"], <<"inc">>))
    /\ TaskFrame

\* line 165, the store; then line 170
TdIncStore(p) ==
    /\ ~bug
    /\ task[p].pc = "td_inc2"
    /\ TaskStep(p, kvm_seq_put(Machine({}, TRUE), task[p].seq),
                IF task[p].e.t = "table"
                THEN Ev([task[p] EXCEPT !.pc = "td_free"], <<"inc">>)
                ELSE td_next(Ev(task[p], <<"inc">>)))
    /\ TaskFrame

\* line 171
TdFree(p) ==
    /\ ~bug
    /\ task[p].pc = "td_free"
    /\ TaskStep(p, pte_free_kernel(Machine({}, TRUE), pgd_index(task[p].addr)),
                td_next(Ev(task[p], <<"free", pgd_index(task[p].addr)>>)))
    /\ TaskFrame

\* line 182, and the entry to __check_kvm_seq(current->active_mm) when the
\* values differ; its lines are then taken by RefreshCopy and RefreshCheck
TdSync(p) ==
    /\ ~bug
    /\ task[p].pc = "td_sync"
    /\ IF mm_seq[active] # kvm_seq
       THEN /\ rf[active].pc = "idle"
            /\ rf' = [rf EXCEPT ![active] =
                         [pc |-> "copy", seq |-> kvm_seq, total |-> kvm_total,
                          n |-> rf[active].n]]
            /\ snaps' = [snaps EXCEPT ![active] = {Slice(pmd)}]
            /\ pass' = [pass EXCEPT ![active] = [n |-> 0, t0 |-> kvm_total]]
            /\ task' = [task EXCEPT ![p].pc = "td_wait"]
       ELSE /\ task' = [task EXCEPT ![p].pc = "td_tlb"]
            /\ UNCHANGED <<rf, snaps, pass>>
    /\ UNCHANGED <<pmd, pte, kvm_seq, kvm_total, mm_pgd, mm_seq, mm_total,
                   active, vmlist, smp, xp, domain_io, bug, wild, ncalls, last,
                   vmlist_lock, cp>>

\* line 183 has returned
TdWait(p) ==
    /\ ~bug
    /\ task[p].pc = "td_wait"
    /\ rf[active].pc = "idle"
    /\ TaskStep(p, Machine({}, TRUE),
                Ev([task[p] EXCEPT !.pc = "td_tlb"], <<"refresh">>))
    /\ TaskFrame

\* line 185, and back to the caller: line 201 of remap_area_sections or
\* line 478 of __iounmap
TdTlb(p) ==
    /\ ~bug
    /\ task[p].pc = "td_tlb"
    /\ TaskStep(p, Machine({}, TRUE),
                Ev([task[p] EXCEPT
                       !.pc = IF task[p].from = "map" THEN "sect0"
                              ELSE "un_unlock",
                       !.addr = task[p].base,
                       !.end = Mod(task[p].base + task[p].asize)],
                   <<"flush_tlb">>))
    /\ TaskFrame

\* ---- remap_area_sections, lines 201-215
\* lines 205-206: pmd[0] and the first pfn += SZ_1M >> PAGE_SHIFT
Sect0(p) ==
    /\ ~bug
    /\ task[p].pc = "sect0"
    /\ TaskStep(p,
                set_pmd(Machine({}, TRUE), pmd_offset(task[p].addr),
                        PmdSect(__pfn_to_phys(task[p].phys),
                                get_mem_type(task[p].args[3]).prot_sect)),
                Ev([task[p] EXCEPT
                       !.pc = "sect1",
                       !.phys = Mod(task[p].phys + (SZ_1M \div PAGE_SIZE))],
                   <<"set", pmd_offset(task[p].addr)>>))
    /\ TaskFrame

\* lines 207-213: pmd[1], the second pfn +=, addr += PGDIR_SIZE and the test
Sect1(p) ==
    /\ ~bug
    /\ task[p].pc = "sect1"
    /\ TaskStep(p,
                set_pmd(Machine({}, TRUE), pmd_offset(task[p].addr) + 1,
                        PmdSect(__pfn_to_phys(task[p].phys),
                                get_mem_type(task[p].args[3]).prot_sect)),
                Ev([task[p] EXCEPT
                       !.pc = IF Mod(task[p].addr + PGDIR_SIZE) < task[p].end
                              THEN "sect0" ELSE "map_ret",
                       !.addr = Mod(task[p].addr + PGDIR_SIZE),
                       !.phys = Mod(task[p].phys + (SZ_1M \div PAGE_SIZE))],
                   <<"set", pmd_offset(task[p].addr) + 1>>))
    /\ TaskFrame

\* ---- remap_area_pages and below, lines 45-111
\* pte_alloc_kernel that installs a new, empty table whatever it finds
pte_alloc_kernel_fresh(M, addr) ==
    pmd_populate_kernel(pte_free_kernel(M, pgd_index(addr)), pmd_offset(addr))

\* pte_alloc_kernel(pmd, addr) under init_mm.page_table_lock: the table of
\* the entry, a new one when the entry is empty
pte_alloc_kernel(M, addr) ==
    IF pmd_none(M.pmd[pmd_offset(addr)])
    THEN pmd_populate_kernel(M, pmd_offset(addr))
    ELSE M

\* where the populator goes once it is done with the first-level entry of
\* t.addr: the next entry, or back to line 299
pgd_next(t) ==
    [t EXCEPT
        !.phys = Mod(t.phys + pgd_addr_end(t.addr, t.end) - t.addr),
        !.addr = pgd_addr_end(t.addr, t.end),
        !.pc = IF pgd_addr_end(t.addr, t.end) = t.end THEN "map_ret"
               ELSE "pg_alloc"]

\* lines 100-104, 77 and 51-53 for the first-level entry of addr.  bad is
\* what the code has no hold on: the page allocator refusing a table, and,
\* when the entry is a block entry taken for a table pointer, its slots
\* reading as occupied (BUG) rather than empty (the stores land there).
PgAlloc(p, bad) ==
    /\ ~bug
    /\ task[p].pc = "pg_alloc"
    /\ IF task[p].addr >= task[p].end
       THEN /\ ~bad
            /\ bug' = TRUE
            /\ TaskStep(p, Machine({}, TRUE), [task[p] EXCEPT !.pc = "bug"])
            /\ UNCHANGED wild
       ELSE IF pmd[pmd_offset(task[p].addr)].t \in {"sect", "super"}
       THEN /\ bug' = bad
            /\ wild' = (wild \/ ~bad)
            /\ TaskStep(p, Machine({}, TRUE),
                        IF bad THEN [task[p] EXCEPT !.pc = "bug"]
                        ELSE pgd_next(task[p]))
       ELSE IF bad /\ pmd_none(pmd[pmd_offset(task[p].addr)])
       THEN /\ TaskStep(p, Machine({}, TRUE),
                        [task[p] EXCEPT !.pc = "map_err", !.err = 0 - ENOMEM])
            /\ UNCHANGED <<bug, wild>>
       ELSE /\ ~bad
            /\ TaskStep(p, pte_alloc_kernel(Machine({}, TRUE), task[p].addr),
                        [task[p] EXCEPT !.pc = "pg_pte"])
            /\ UNCHANGED <<bug, wild>>
    /\ UNCHANGED <<mm_pgd, mm_seq, mm_total, rf, vmlist, vmlist_lock, ncalls,
                   last>>

\* where the populator goes after the page at t.addr: the next page of the
\* table, the next first-level entry, or back to line 299
pg_next(t) ==
    [t EXCEPT
        !.addr = Mod(t.addr + PAGE_SIZE),
        !.phys = Mod(t.phys + PAGE_SIZE),
        !.pc = IF Mod(t.addr + PAGE_SIZE) = t.end THEN "map_ret"
               ELSE IF Mod(t.addr + PAGE_SIZE)
                         = pgd_addr_end(t.addr, t.end) THEN "pg_alloc"
               ELSE "pg_pte"]

\* lines 56-61 for one page
PgPte(p) ==
    /\ ~bug
    /\ task[p].pc = "pg_pte"
    /\ IF ~pte_none(pte[pte_index(task[p].addr)])
       THEN /\ bug' = TRUE
            /\ TaskStep(p, Machine({}, TRUE), [task[p] EXCEPT !.pc = "bug"])
       ELSE /\ TaskStep(p,
                        pte_loop(Machine({}, TRUE), task[p].addr,
                                 Mod(task[p].addr + PAGE_SIZE), task[p].phys,
                                 get_mem_type(task[p].args[3])),
                        pg_next(Ev(task[p], <<"pte", pte_index(task[p].addr)>>)))
            /\ UNCHANGED bug
    /\ UNCHANGED <<mm_pgd, mm_seq, mm_total, rf, vmlist, vmlist_lock, wild,
                   ncalls, last>>

\* lines 299-301: vunmap() and return NULL
MapErr(p) ==
    /\ ~bug
    /\ task[p].pc = "map_err"
    /\ vmlist_lock = "none"
    /\ TaskStep(p, vunmap(Machine({}, TRUE), vmlist, task[p].base).M, NoTask)
    /\ vmlist' = vunmap(Machine({}, TRUE), vmlist, task[p].base).vm
    /\ last' = TaskRecord(task[p], NULL)
    /\ UNCHANGED <<mm_pgd, mm_seq, mm_total, rf, vmlist_lock, bug, wild, ncalls>>

\* lines 304-305
MapRet(p) ==
    /\ ~bug
    /\ task[p].pc = "map_ret"
    /\ TaskStep(p, Machine({}, TRUE), NoTask)
    /\ last' = TaskRecord(task[p],
                          Mod((task[p].args[1] % PAGE_SIZE) + task[p].base))
    /\ UNCHANGED <<mm_pgd, mm_seq, mm_total, rf, vmlist, vmlist_lock, bug,
                   wild, ncalls>>

\* ---- __iounmap, lines 455-482
\* lines 457 and 468 for the pointer a finished map call returned for area
\* a; a build with CONFIG_SMP goes straight to line 481
UnLock(p, a) ==
    /\ ~bug
    /\ task[p].pc = "idle"
    /\ ncalls < MaxCalls
    /\ a \in vmlist
    /\ \A q \in Tasks : task[q].base # a.addr
    /\ ~smp => vmlist_lock = "none"
    /\ vmlist_lock' = IF smp THEN vmlist_lock ELSE p
    /\ ncalls' = ncalls + 1
    /\ task' = [task EXCEPT ![p] =
                   [NoTask EXCEPT
                       !.pc = IF smp THEN "un_vunmap" ELSE "un_find",
                       !.op = "iounmap", !.args = <<a.addr + a.off>>,
                       !.base = AlignDown(a.addr + a.off, PAGE_SIZE),
                       !.asize = a.size - PAGE_SIZE,
                       !.addr = AlignDown(a.addr + a.off, PAGE_SIZE),
                       !.from = "unmap"]]
    /\ UNCHANGED <<pmd, pte, kvm_seq, kvm_total, mm_pgd, mm_seq, mm_total, rf,
                   active, vmlist, smp, xp, domain_io, bug, wild, last, cp,
                   snaps, pass>>

\* lines 469-477: the area is looked up and, when it is tagged, torn down
\* over tmp->size, which line 147 masks
UnFind(p) ==
    /\ ~bug
    /\ task[p].pc = "un_find"
    /\ TaskStep(p, Machine({}, TRUE),
                IF \E a \in vmlist : a.addr = task[p].addr /\ a.block
                THEN [task[p] EXCEPT
                         !.pc = "td_flush",
                         !.end = Mod(task[p].addr
                                     + AlignDown(task[p].asize + PAGE_SIZE,
                                                 SZ_1M))]
                ELSE [task[p] EXCEPT !.pc = "un_unlock"])
    /\ TaskFrame

\* line 478
UnUnlock(p) ==
    /\ ~bug
    /\ task[p].pc = "un_unlock"
    /\ vmlist_lock' = "none"
    /\ TaskStep(p, Machine({}, TRUE), [task[p] EXCEPT !.pc = "un_vunmap"])
    /\ UNCHANGED <<mm_pgd, mm_seq, mm_total, rf, vmlist, bug, wild, ncalls,
                   last>>

\* line 481
UnVunmap(p) ==
    /\ ~bug
    /\ task[p].pc = "un_vunmap"
    /\ vmlist_lock = "none"
    /\ TaskStep(p, vunmap(Machine({}, TRUE), vmlist, task[p].base).M, NoTask)
    /\ vmlist' = vunmap(Machine({}, TRUE), vmlist, task[p].base).vm
    /\ last' = TaskRecord(task[p], NULL)
    /\ UNCHANGED <<mm_pgd, mm_seq, mm_total, rf, vmlist_lock, bug, wild, ncalls>>

\* ------------------------------------------------------------ start
ConfigUP == [smp |-> FALSE, xp |-> TRUE, domain_io |-> 0]
ConfigNoXP == [smp |-> FALSE, xp |-> FALSE, domain_io |-> 0]
ConfigDomain == [smp |-> FALSE, xp |-> TRUE, domain_io |-> 2]
ConfigSMP == [smp |-> TRUE, xp |-> TRUE, domain_io |-> 0]

\* An idle system with nothing mapped, on one of the builds cfgs, after
\* kvm_seq has been incremented one of seqs times.
InitOn(cfgs, seqs) ==
    /\ pmd = [s \in SectIdx |-> PmdNone]
    /\ pte = [p \in PageIdx |-> PteNone]
    /\ kvm_total \in seqs
    /\ kvm_seq = kvm_total % UINT_MOD
    /\ mm_pgd = [m \in MMs |-> [s \in SectIdx |-> PmdNone]]
    /\ mm_seq = [m \in MMs |-> kvm_seq]
    /\ mm_total = [m \in MMs |-> kvm_total]
    /\ rf = [m \in MMs |-> Idle(0)]
    /\ active = "mmA"
    /\ vmlist = {}
    /\ \E cf \in cfgs :
         /\ smp = cf.smp
         /\ xp = cf.xp
         /\ domain_io = cf.domain_io
    /\ bug = FALSE
    /\ wild = FALSE
    /\ ncalls = 0
    /\ last = NoCall
    /\ task = [t \in Tasks |-> NoTask]
    /\ vmlist_lock = "none"
    /\ cp = [m \in MMs |-> SliceStart]
    /\ snaps = [m \in MMs |-> {}]
    /\ pass = [m \in MMs |-> [n |-> 0, t0 |-> 0]]

\* ------------------------------------------------------------ Spec
\* map and unmap on every build: <<phys_addr, size, mtype>> for
\* __arm_ioremap, <<pfn, offset, size, mtype>> for __arm_ioremap_pfn.
MapCalls ==
    {<<17, 3, MT_DEVICE>>, <<64, 8, MT_DEVICE>>, <<64, 64, MT_DEVICE>>,
     <<64, 0, MT_DEVICE>>, <<254, 3, MT_DEVICE>>, <<64, 8, MT_UNKNOWN>>}
PfnCalls ==
    {<<128, 0, 64, MT_DEVICE>>, <<128, 0, 2, MT_DEVICE>>,
     <<130, 0, 2, MT_DEVICE>>}
MapBases == {NULL, 64, 72, 76}
\* <<virt, phys>> for ioremap_page
PageCalls == {<<64, 32>>, <<78, 32>>}

Init == InitOn({ConfigUP, ConfigNoXP, ConfigDomain, ConfigSMP}, {0})

Next ==
    \/ \E c \in MapCalls, b \in MapBases : ArmIoremap(c, b)
    \/ \E c \in PfnCalls, b \in MapBases : ArmIoremapPfn(c, b)
    \/ \E c \in PageCalls : IoremapPage(c)
    \/ IoUnmap

Spec == Init /\ [][Next]_vars

\* ------------------------------------------------------------ translation
\* The physical address the MMU reaches from virtual address va through
\* table pm / leaf tables pt, -1 when the walk faults.  A supersection entry
\* carries physical address bits 32 and up in the four bits above its type.
Translate(pm, pt, va) ==
    LET e == pm[va \div SZ_1M]
        l == pt[va \div PAGE_SIZE]
    IN  CASE e.t = "none" -> 0 - 1
          [] e.t = "table" ->
                IF l.v THEN l.pfn * PAGE_SIZE + (va % PAGE_SIZE) ELSE 0 - 1
          [] e.t = "sect" -> AlignDown(e.val, SZ_1M) + (va % SZ_1M)
          [] e.t = "super" ->
                ((e.val \div SZ_1M) % 16) * WORD
                + AlignDown(e.val, SUPERSECTION_SIZE)
                + (va % SUPERSECTION_SIZE)

\* What the last call was asked for.
IsMap(rec) == rec.op \in {"ioremap", "ioremap_pfn"}
PhysOf(rec) ==
    IF rec.op = "ioremap" THEN rec.args[1]
    ELSE rec.args[1] * PAGE_SIZE + rec.args[2]
SizeOf(rec) == IF rec.op = "ioremap" THEN rec.args[2] ELSE rec.args[3]
\* first-level kinds found over [lo, lo + len)
KindsOver(pm, lo, len) == {pm[va \div SZ_1M].t : va \in lo..(lo + len - 1)}

\* ------------------------------------------------------------ C1
\* C1: when the map operation succeeds for (phys, size, type), the address
\* it returns has the same offset within its page as phys, and every address
\* ret + k with 0 <= k < size translates through the kernel table to phys + k.
\* The code computes the physical base in an unsigned long, so a frame number
\* of 0x100000 or more mapped with pages or sections lands 4 GiB too low.
C1_MapTranslates ==
    (IsMap(last) /\ last.returned /\ last.ret # NULL) =>
        /\ last.ret % PAGE_SIZE = PhysOf(last) % PAGE_SIZE
        /\ \A k \in 0..(SizeOf(last) - 1) :
               Translate(pmd, pte, last.ret + k) = PhysOf(last) + k

\* C1 for physical ranges below 4 GiB and for supersections, where the
\* translation is the requested one.
C1_LowOrSuperTranslates ==
    (/\ IsMap(last) /\ last.returned /\ last.ret # NULL
     /\ (PhysOf(last) < WORD \/ last.gran = "super")) =>
        /\ last.ret % PAGE_SIZE = PhysOf(last) % PAGE_SIZE
        /\ \A k \in 0..(SizeOf(last) - 1) :
               Translate(pmd, pte, last.ret + k) = PhysOf(last) + k

C1_HighPfnMapped ==
    /\ IsMap(last) /\ last.returned /\ last.ret # NULL
    /\ PhysOf(last) >= WORD
    /\ last.gran # "super"

\* ------------------------------------------------------------ C2
\* C2: after unmap of an address a successful map returned, the area is no
\* longer reserved and no address of the range that was mapped translates:
\* no first-level entry over it is a block entry and no leaf entry is set.
C2_UnmapRemovesAll ==
    (last.op = "iounmap" /\ last.returned) =>
        /\ \A a \in vmlist : a.addr # last.base
        /\ \A va \in last.base..(last.base + last.asize - 1) :
               Translate(pmd, pte, va) = 0 - 1

\* a block mapping has just been unmapped
C2_BlockAreaUnmapped ==
    /\ last.op = "iounmap" /\ last.returned
    /\ last.asize > 0
    /\ last.cleared > 0

\* ------------------------------------------------------------ C3
\* The granularity C3 (as amended) expects for a successful map call.
AlignedTo(rec, x) ==
    /\ PhysOf(rec) % x = 0
    /\ rec.base % x = 0
    /\ rec.asize % x = 0
ExpectedKinds(rec) ==
    IF /\ ~smp /\ xp /\ domain_io = 0
       /\ PhysOf(rec) \div PAGE_SIZE >= HIGH_PFN
       /\ AlignedTo(rec, SUPERSECTION_SIZE)
    THEN {"super"}
    ELSE IF ~smp /\ AlignedTo(rec, PGDIR_SIZE) THEN {"sect"}
    ELSE {"table"}

IsPopulate(rec) ==
    \/ rec.op = "ioremap_page"
    \/ IsMap(rec) /\ rec.gran = "page" /\ rec.err = 0 /\ rec.base # NULL
PopulateStart(rec) ==
    IF rec.op = "ioremap_page" THEN rec.args[1] ELSE rec.base
PopulatePages(rec) ==
    {va \div PAGE_SIZE :
        va \in PopulateStart(rec)..(PopulateStart(rec) + rec.asize - 1)}

\* C10: the leaf populator never overwrites.  Over a step in which it runs,
\* every leaf entry that was set before keeps its value; and if a slot of its
\* range was already set, the call stops in BUG() without returning, and the
\* slots from the first occupied one on are as they were.
C10_PopulatorNeverOverwrites ==
    [][(ncalls' = ncalls + 1 /\ IsPopulate(last')) =>
         /\ \A p \in PageIdx : pte[p].v => pte'[p] = pte[p]
         /\ \A q \in PopulatePages(last') :
              pte[q].v =>
                 /\ bug'
                 /\ ~last'.returned
                 /\ \A p \in PopulatePages(last') :
                        p >= q => pte'[p] = pte[p]]_vars

\* a map call has stopped at an occupied slot after writing earlier ones
C10_StoppedAtOccupied ==
    /\ bug
    /\ IsMap(last) /\ last.gran = "page"
    /\ \E p, q \in PopulatePages(last) :
          /\ p < q
          /\ pte[p].v /\ pte[p].pfn # pte[q].pfn
          /\ pte[q].v

\* ------------------------------------------------------------ SpecStrided
\* map_strided on a single-processor and a multiprocessor build, with the
\* requests __arm_ioremap turns down.
RgWhole == Region(64, 8, 0, 0)
RgTwoSteps == Region(32, 4, 2, 2)
RgOnlyVirt == Region(32, 4, 0, 2)
RgOnlyPhys == Region(32, 4, 2, 0)
RgVirtBigger == Region(32, 8, 2, 4)
RgRemainder == Region(32, 6, 4, 2)
RgZeroSize == Region(32, 0, 2, 2)
RgUnaligned == Region(33, 2, 0, 0)
RgWraps == Region(254, 4, 0, 0)
\* windows narrower than the physical stride, of pages and of sections
RgSparse == Region(32, 8, 4, 2)
RgSparseSect == Region(64, 32, 16, 8)

\* <<regions, mtype>>
StridedCalls ==
    {<<(<<RgWhole>>), MT_DEVICE>>,
     <<(<<RgTwoSteps>>), MT_DEVICE>>,
     <<(<<RgWhole, RgTwoSteps>>), MT_DEVICE>>,
     <<(<<RgTwoSteps, RgWhole>>), MT_DEVICE>>,
     <<(<<RgOnlyVirt>>), MT_DEVICE>>,
     <<(<<RgOnlyPhys>>), MT_DEVICE>>,
     <<(<<RgVirtBigger>>), MT_DEVICE>>,
     <<(<<RgRemainder>>), MT_DEVICE>>,
     <<(<<RgZeroSize>>), MT_DEVICE>>,
     <<(<<RgUnaligned>>), MT_DEVICE>>,
     <<(<<RgWraps>>), MT_DEVICE>>,
     <<(<<RgTwoSteps, RgTwoSteps, RgTwoSteps, RgTwoSteps, RgTwoSteps>>),
       MT_DEVICE>>,
     <<(<<RgSparse>>), MT_DEVICE>>,
     <<(<<RgSparseSect>>), MT_DEVICE>>,
     <<(<<RgWhole>>), MT_UNKNOWN>>}
StridedBases == {NULL, 64, 70, 78}
StridedMapCalls ==
    {<<17, 3, MT_DEVICE>>, <<64, 0, MT_DEVICE>>, <<254, 3, MT_DEVICE>>,
     <<64, 8, MT_UNKNOWN>>}

InitStrided == InitOn({ConfigUP, ConfigSMP}, {0})

NextStrided ==
    \/ \E c \in StridedCalls, b \in StridedBases : ArmMultiStridedIoremap(c, b)
    \/ \E c \in StridedMapCalls, b \in StridedBases : ArmIoremap(c, b)
    \/ IoUnmap

SpecStrided == InitStrided /\ [][NextStrided]_vars

\* ------------------------------------------------------------ C4
\* The regions C4 says are turned down, in the caller's own numbers (a
\* stride of 0 is one that was not supplied).
StrideMismatch(r) ==
    \/ r.phys_stride # 0 /\ r.virt_stride # 0 /\ r.virt_stride > r.phys_stride
    \/ r.phys_stride # 0 /\ r.phys_size % r.phys_stride # 0
    \/ (r.phys_stride = 0) # (r.virt_stride = 0)

\* C4: map_strided fails, reserves no area and writes no table entry when a
\* region has virtual_stride > physical_stride, or a size that is no
\* multiple of physical_stride, or exactly one of the two strides supplied.
\* The code takes a missing stride to be the region's size before it
\* compares them, so a region with only a virtual stride is mapped.
C4_StrideMismatchRejected ==
    [][(/\ ncalls' = ncalls + 1
        /\ last'.op = "strided"
        /\ \E i \in 1..Len(last'.args[1]) : StrideMismatch(last'.args[1][i]))
       => /\ last'.ret = NULL
          /\ vmlist' = vmlist
          /\ pmd' = pmd
          /\ pte' = pte]_vars

\* C4 for the regions the code does turn down: both strides supplied.
C4_BothStridesRejected ==
    [][(/\ ncalls' = ncalls + 1
        /\ last'.op = "strided"
        /\ \E i \in 1..Len(last'.args[1]) :
              /\ StrideMismatch(last'.args[1][i])
              /\ last'.args[1][i].virt_stride = 0
                   \/ last'.args[1][i].phys_stride # 0)
       => /\ last'.ret = NULL
          /\ vmlist' = vmlist
          /\ pmd' = pmd
          /\ pte' = pte]_vars

\* ------------------------------------------------------------ C7
\* first-level kinds over the mapped part of area a (all but its guard page)
AreaKinds(a) == KindsOver(pmd, a.addr, a.size - PAGE_SIZE)

\* C7: in every reachable state the first-level entries over one area are
\* all table pointers or all block entries, never both, and the area is
\* tagged VM_ARM_SECTION_MAPPING exactly when they are block entries.
\* map_strided chooses the granularity anew at every step and tags the area
\* as soon as one step used sections.
C7_Homogeneous ==
    ~bug =>
        \A a \in vmlist :
            /\ ~({"table"} \subseteq AreaKinds(a)
                 /\ AreaKinds(a) \cap {"sect", "super"} # {})
            /\ a.block => "table" \notin AreaKinds(a)
            /\ ~a.block => AreaKinds(a) \cap {"sect", "super"} = {}

\* C7 for the areas of map alone.
C7_MapAreasHomogeneous ==
    ~bug =>
        \A a \in vmlist :
            a.by # "strided" =>
                /\ a.block => AreaKinds(a) \subseteq {"sect", "super"}
                /\ ~a.block => AreaKinds(a) \subseteq {"table"}

\* ------------------------------------------------------------ C8
Malformed(r) ==
    \/ StrideMismatch(r)
    \/ r.phys_size = 0
    \/ r.phys_addr + r.phys_size - 1 >= WORD
    \/ \E x \in {r.phys_addr, r.phys_size, r.phys_stride, r.virt_stride} :
          x % PAGE_SIZE # 0
InvalidRequest(rec) ==
    \/ /\ rec.op = "ioremap"
       /\ \/ rec.args[2] = 0
          \/ rec.args[1] + rec.args[2] - 1 >= WORD
          \/ get_mem_type(rec.args[3]) = NoType
    \/ /\ rec.op = "strided"
       /\ \/ \E i \in 1..Len(rec.args[1]) : Malformed(rec.args[1][i])
          \/ get_mem_type(rec.args[2]) = NoType

\* C8: a map call with zero length, a wrapping physical range or an unknown
\* memory type, and a map_strided call with a malformed region, fail and
\* leave the areas, every table entry and kvm_seq as they were.  Fails
\* through C4: a region with only a virtual stride is not turned down.
C8_InvalidRequestNoEffect ==
    [][(ncalls' = ncalls + 1 /\ InvalidRequest(last'))
       => /\ last'.ret = NULL
          /\ vmlist' = vmlist
          /\ pmd' = pmd
          /\ pte' = pte
          /\ kvm_seq' = kvm_seq]_vars

\* C8 for every call the code does turn down before reserving an area.
C8_RejectedNoEffect ==
    [][(/\ ncalls' = ncalls + 1
        /\ last'.op \in {"ioremap", "strided"}
        /\ last'.ret = NULL /\ last'.base = NULL)
       => /\ vmlist' = vmlist
          /\ pmd' = pmd
          /\ pte' = pte
          /\ kvm_seq' = kvm_seq]_vars

\* ------------------------------------------------------------ C9
FailedSteps(rec) == {k \in 1..Len(rec.log) : rec.log[k].err # 0}

\* C9: when the populator or a block mapper reports failure during map or
\* during a step of map_strided, the call returns failure, its area is
\* released, and map_strided takes no step of a later region.  The inner
\* loop of map_strided goes on after a failed step and a later step of the
\* same region overwrites err.
C9_FailureReleases ==
    /\ (IsMap(last) /\ last.err # 0) =>
          /\ last.ret = NULL
          /\ \A a \in vmlist : a.addr # last.base
    /\ (last.op = "strided" /\ FailedSteps(last) # {}) =>
          /\ last.ret = NULL
          /\ \A a \in vmlist : a.addr # last.base
          /\ \A k \in FailedSteps(last), n \in 1..Len(last.log) :
                n > k => last.log[n].i = last.log[k].i

\* C9 for map, and for map_strided when err is still set after its loops.
C9_FinalErrorReleases ==
    ((IsMap(last) \/ last.op = "strided") /\ last.err # 0) =>
        /\ last.ret = NULL
        /\ \A a \in vmlist : a.addr # last.base

\* ------------------------------------------------------------ SpecGen
\* Section mappings made and torn down on a single-processor build while
\* address spaces are switched and refreshed; kvm_seq starts at 0 or one
\* short of wrapping.
GenMapCalls == {<<64, 8, MT_DEVICE>>}
GenBases == {NULL, 64, 72}
GenPageCalls == {<<64, 32>>}

InitGen == InitOn({ConfigUP}, {0, UINT_MOD - 1})

NextGen ==
    \/ \E c \in GenMapCalls, b \in GenBases : ArmIoremap(c, b)
    \/ \E c \in GenPageCalls : IoremapPage(c)
    \/ IoUnmap
    \/ \E mm \in MMs : SwitchMm(mm)
    \/ \E mm \in MMs : RefreshBegin(mm)
    \/ \E mm \in MMs : RefreshCopy(mm)
    \/ \E mm \in MMs : RefreshCheck(mm)

SpecGen == InitGen /\ [][NextGen]_vars

\* ------------------------------------------------------------ C5
\* The first-level (pgd) entries the teardown of the call recorded in rec
\* visits, given the areas vm it found: those of the new area when a map call
\* installs blocks, those of the area when unmap releases a block area.
TeardownPgds(rec, vm) ==
    IF IsMap(rec) /\ rec.gran \in {"section", "super"} /\ rec.base # NULL
    THEN {va \div PGDIR_SIZE : va \in rec.base..(rec.base + rec.asize - 1)}
    ELSE IF rec.op = "iounmap" /\ ~smp
            /\ \E a \in vm : a.addr = rec.base /\ a.block
    THEN {va \div PGDIR_SIZE : va \in rec.base..(rec.base + rec.asize - 1)}
    ELSE {}
BlockMapperRan(rec, vm) == TeardownPgds(rec, vm) # {}

\* C5 (amended): kvm_seq advances by exactly one, modulo 2^32, for each
\* non-empty first-level entry the teardown clears, and by nothing else:
\* writing the new section or supersection entries leaves it as it is, so a
\* block mapping installed over an empty range does not change it.
C5_CounterCountsClears ==
    [][ncalls' = ncalls + 1 =>
         kvm_seq' = (kvm_seq
                     + Cardinality({g \in TeardownPgds(last', vmlist) :
                                       pmd[2 * g].t # "none"}))
                    % UINT_MOD]_vars

\* C5 as written: every change the block mapper makes to a first-level
\* entry, clearing or installing, leaves kvm_seq greater than it was.
C5_EveryChangeIncreases ==
    [][(/\ ncalls' = ncalls + 1
        /\ BlockMapperRan(last', vmlist)
        /\ pmd' # pmd)
       => kvm_seq' > kvm_seq]_vars

\* a section mapping has been installed where the teardown found a table
C5_ClearedThenInstalled ==
    /\ IsMap(last) /\ last.gran = "section" /\ last.ret # NULL
    /\ last.cleared > 0
    /\ kvm_total % UINT_MOD = kvm_seq

\* ------------------------------------------------------------ C6
\* C6 (amended): the value recorded for an address space is always one the
\* counter has held, and a __check_kvm_seq that completes leaves it equal to
\* kvm_seq.  It is not monotonic: it falls when the counter wraps, and when a
\* refresh that read the counter before a teardown stores after a refresh
\* that read it later.
C6_RecordFollowsCounter ==
    [][\A mm \in MMs :
         /\ mm_seq'[mm] = mm_total'[mm] % UINT_MOD
         /\ mm_total'[mm] <= kvm_total'
         /\ (rf[mm].pc = "check" /\ rf'[mm].pc = "idle")
               => mm_seq'[mm] = kvm_seq']_vars

\* C6 as written: the recorded value never decreases.
C6_RecordNeverDecreases ==
    [][\A mm \in MMs : mm_seq'[mm] >= mm_seq[mm]]_vars

\* C6 as written, the counter's wrap set aside: the recorded value never
\* goes back to one the counter held earlier.
C6_RecordNeverGoesBack ==
    [][\A mm \in MMs : mm_total'[mm] >= mm_total[mm]]_vars

\* a refresh has completed after the counter moved while it ran
C6_RefreshWentRound ==
    \E mm \in MMs :
        /\ last.op = "refresh" /\ last.args = <<mm, "idle">>
        /\ mm_total[mm] \notin {0, UINT_MOD - 1}
        /\ mm_seq[mm] = kvm_seq

\* ------------------------------------------------------------ SpecConc
\* Two tasks inside __arm_ioremap and __iounmap at the same time, and
\* __check_kvm_seq of the other address space, all taken a line at a time,
\* on a single-processor build.
ConcCalls == {<<17, 1, MT_DEVICE>>, <<64, 8, MT_DEVICE>>}
ConcBases == {64, 68, 80}
\* where the memcpy can be caught: inside the first pair and after it
ConcCuts == {SliceStart + 1, SliceStart + 2}

InitConc == InitOn({ConfigUP}, {0})

NextConc ==
    \/ \E p \in Tasks, c \in ConcCalls, b \in ConcBases : TaskMapBegin(p, c, b)
    \/ \E p \in Tasks : TdFlush(p)
    \/ \E p \in Tasks : TdRead(p)
    \/ \E p \in Tasks : TdClear(p)
    \/ \E p \in Tasks : TdIncLoad(p)
    \/ \E p \in Tasks : TdIncStore(p)
    \/ \E p \in Tasks : TdFree(p)
    \/ \E p \in Tasks : TdSync(p)
    \/ \E p \in Tasks : TdWait(p)
    \/ \E p \in Tasks : TdTlb(p)
    \/ \E p \in Tasks : Sect0(p)
    \/ \E p \in Tasks : Sect1(p)
    \/ \E p \in Tasks, bad \in BOOLEAN : PgAlloc(p, bad)
    \/ \E p \in Tasks : PgPte(p)
    \/ \E p \in Tasks : MapErr(p)
    \/ \E p \in Tasks : MapRet(p)
    \/ \E p \in Tasks, a \in vmlist : UnLock(p, a)
    \/ \E p \in Tasks : UnFind(p)
    \/ \E p \in Tasks : UnUnlock(p)
    \/ \E p \in Tasks : UnVunmap(p)
    \/ \E mm \in MMs : mm # active /\ RefreshBegin(mm)
    \/ \E mm \in MMs, k \in ConcCuts : RefreshCopyPart(mm, k)
    \/ \E mm \in MMs : RefreshCopy(mm)
    \/ \E mm \in MMs : RefreshCheck(mm)

SpecConc == InitConc /\ [][NextConc]_vars

\* ------------------------------------------------------------ C11
\* the leaf entry a page-granularity __arm_ioremap(c) with its area at base
\* puts at virtual address va
OwnLeaf(c, base, va) ==
    pfn_pte(__phys_to_pfn(c[1]) + ((va - base) \div PAGE_SIZE),
            get_mem_type(c[3]).prot_pte)
\* the page addresses of [lo, hi)
PagesIn(lo, hi) == {va \in lo..(hi - 1) : va % PAGE_SIZE = 0}

\* C11: whatever the interleaving of two map calls, whose areas the
\* allocator keeps disjoint, BUG() is never reached (no call finds a slot of
\* its range occupied), every leaf entry a call has written so far holds the
\* frame of its own request, and so does every leaf entry of its range when
\* it has returned.
C11_DisjointMapsKeepOwnFrames ==
    /\ ~bug
    /\ \A p \in Tasks :
          (task[p].op = "ioremap" /\ task[p].gran = "page") =>
              \A va \in PagesIn(task[p].base, task[p].addr) :
                  pte[pte_index(va)] = OwnLeaf(task[p].args, task[p].base, va)
    /\ (last.op = "ioremap" /\ last.gran = "page" /\ last.ret # NULL) =>
          \A va \in PagesIn(last.base, last.base + last.asize) :
              pte[pte_index(va)] = OwnLeaf(last.args, last.base, va)

\* two tasks are populating the same leaf table, each with a page written
C11_TwoPopulatorsOneTable ==
    \E p, q \in Tasks :
        /\ p # q
        /\ task[p].op = "ioremap" /\ task[p].gran = "page"
        /\ task[q].op = "ioremap" /\ task[q].gran = "page"
        /\ pgd_index(task[p].base) = pgd_index(task[q].base)
        /\ task[p].addr > task[p].base
        /\ task[q].addr > task[q].base

\* ------------------------------------------------------------ C12
\* the virtual size of region r, and of the first n regions
RegionVirt(r) == (r.phys_size \div pstride_of(r)) * vstride_of(r)
RECURSIVE SumVirt(_, _)
SumVirt(regions, n) ==
    IF n = 0 THEN 0 ELSE SumVirt(regions, n - 1) + RegionVirt(regions[n])

\* window j of region i of the call rec translates to its physical window
WindowTranslates(rec, i, j) ==
    \A k \in 0..(vstride_of(rec.args[1][i]) - 1) :
        Translate(pmd, pte,
                  rec.base + SumVirt(rec.args[1], i - 1)
                      + j * vstride_of(rec.args[1][i]) + k)
            = rec.args[1][i].phys_addr + j * pstride_of(rec.args[1][i]) + k

\* the layout C12 describes, for the successful map_strided call rec
StridedLayout(rec) ==
    /\ \E a \in vmlist :
          /\ a.addr = rec.base
          /\ a.size - PAGE_SIZE = SumVirt(rec.args[1], Len(rec.args[1]))
    /\ \A i \in 1..Len(rec.args[1]) :
          \A j \in 0..((rec.args[1][i].phys_size
                           \div pstride_of(rec.args[1][i])) - 1) :
              WindowTranslates(rec, i, j)

\* C12: after a successful map_strided the area (its guard page aside) is as
\* large as the sum over the regions of (size / physical stride) * virtual
\* stride, and window j of region i, vstride_i bytes at the area's base plus
\* the virtual sizes of the earlier regions plus j * vstride_i, translates to
\* the vstride_i bytes at physical_base_i + j * pstride_i.  Fails through C9:
\* a step whose failure a later step of the same region hides leaves its
\* window unmapped in a call that returns success.
C12_StridedLayout ==
    (last.op = "strided" /\ last.returned /\ last.ret # NULL) =>
        StridedLayout(last)

\* C12 for the calls none of whose steps failed.
C12_LayoutWhenNoStepFailed ==
    (/\ last.op = "strided" /\ last.returned /\ last.ret # NULL
     /\ FailedSteps(last) = {}) =>
        StridedLayout(last)

\* a call of two regions, one mapped with sections, has succeeded
C12_TwoRegionsMapped ==
    /\ last.op = "strided" /\ last.returned /\ last.ret # NULL
    /\ Len(last.args[1]) = 2
    /\ FailedSteps(last) = {}
    /\ \E k \in 1..Len(last.log) : last.log[k].gran = "section"

\* ------------------------------------------------------------ C13
\* __check_kvm_seq(mm) returns in this step
RefreshReturns(mm) == rf[mm].pc = "check" /\ rf'[mm].pc = "idle"

\* C13 (amended): when __check_kvm_seq(mm) returns, the value it recorded is
\* the value of kvm_seq read after the copy, and each first-level entry it
\* left in mm is the init_mm entry as it stood at some instant of the final
\* pass of the loop.  The entries need not all be of one instant: a section
\* entry installed during the memcpy (installing does not advance kvm_seq)
\* and an entry cleared during the memcpy whose kvm_seq++ has not yet been
\* executed are caught half-way, and the loop does not go round again.
C13_EntriesOfFinalPass ==
    [][\A mm \in MMs :
          RefreshReturns(mm) =>
              /\ mm_seq[mm] = kvm_seq
              /\ \A s \in SliceIdx :
                    \E sn \in snaps[mm] : mm_pgd[mm][s] = sn[s]]_vars

\* C13 as written: the slice left in mm is init_mm's slice as it stood at
\* one single instant of the final pass.
C13_SnapshotOfOneInstant ==
    [][\A mm \in MMs :
          RefreshReturns(mm) =>
              /\ mm_seq[mm] = kvm_seq
              /\ Slice(mm_pgd[mm]) \in snaps[mm]]_vars

\* a __check_kvm_seq has returned with the second section of a pair that
\* was installed during its memcpy, and without the first
C13_TornCopyReturned ==
    \E mm \in MMs :
        /\ last.op = "refresh" /\ last.args = <<mm, "idle">>
        /\ mm_pgd[mm][SliceStart].t = "none"
        /\ mm_pgd[mm][SliceStart + 1].t = "sect"
        /\ pmd[SliceStart].t = "sect"

\* ------------------------------------------------------------ C14
\* SpecGen where a __check_kvm_seq under way is not left waiting for ever:
\* the task running it is scheduled again (it runs with preemption enabled
\* but takes no lock and sleeps nowhere, lines 120-132)
SpecGenFair ==
    /\ SpecGen
    /\ \A mm \in MMs : WF_vars(RefreshCopy(mm)) /\ WF_vars(RefreshCheck(mm))

\* C14: __check_kvm_seq copies the slice at least once before it returns; a
\* call during which kvm_seq was not changed returns after exactly one copy;
\* and, the calls that change kvm_seq being finitely many, every
\* __check_kvm_seq that was entered returns, given that its own lines are
\* scheduled fairly and the kernel has not stopped at BUG().
C14_RefreshTerminates ==
    /\ [][\A mm \in MMs :
             RefreshReturns(mm) =>
                 /\ pass[mm].n >= 1
                 /\ kvm_total = pass[mm].t0 => pass[mm].n = 1]_vars
    /\ \A mm \in MMs : (rf[mm].pc # "idle") ~> (rf[mm].pc = "idle" \/ bug)

\* a __check_kvm_seq has returned after going round the loop
C14_ReturnedAfterRetry ==
    \E mm \in MMs :
        /\ last.op = "refresh" /\ last.args = <<mm, "idle">>
        /\ pass[mm].n >= 2

\* ------------------------------------------------------------ C15
\* the places of a task inside unmap_area_sections
TdPcs == {"td_flush", "td_read", "td_clear", "td_inc", "td_inc2", "td_free",
          "td_sync", "td_wait", "td_tlb"}

Has(tr, k) == \E i \in 1..Len(tr) : tr[i][1] = k

\* the order of what one call has done so far
TeardownOrdered(tr) ==
    \A i \in 1..Len(tr) :
        /\ tr[i][1] = "clear" => \E j \in 1..(i - 1) : tr[j][1] = "flush_cache"
        /\ tr[i][1] = "flush_tlb" =>
               \A j \in (i + 1)..Len(tr) :
                   tr[j][1] \notin {"flush_cache", "skip", "clear", "inc",
                                    "free", "refresh"}
        /\ tr[i][1] = "set" => \E j \in 1..(i - 1) : tr[j][1] = "flush_tlb"

\* C15: in every block teardown, from __iounmap or as the first step of
\* remap_area_sections, flush_cache_vunmap comes before the first pmd_clear,
\* flush_tlb_kernel_range comes after the last pmd_clear and after the
\* __check_kvm_seq of the active mm, a teardown that is over has flushed the
\* TLB, and no section entry is written before the flush_tlb_kernel_range of
\* the teardown of its range.
C15_TeardownOrder ==
    /\ \A p \in Tasks :
           /\ TeardownOrdered(task[p].trace)
           /\ Has(task[p].trace, "flush_cache") /\ task[p].pc \notin TdPcs
                  => Has(task[p].trace, "flush_tlb")
    /\ TeardownOrdered(last.log)
    /\ Has(last.log, "flush_cache") => Has(last.log, "flush_tlb")

\* a section mapping has returned whose teardown cleared an entry, refreshed
\* the active mm, and then wrote its sections
C15_ClearedRefreshedInstalled ==
    /\ last.op = "ioremap" /\ last.gran = "section" /\ last.ret # NULL
    /\ Has(last.log, "clear")
    /\ Has(last.log, "refresh")
    /\ Has(last.log, "set")

\* ------------------------------------------------------------ C16
Count(tr, k) == Cardinality({i \in 1..Len(tr) : tr[i][1] = k})

\* task p has taken a line of unmap_area_sections
TeardownLine(p) == task[p].pc \in TdPcs /\ task'[p] # task[p]

\* C16: when the loop of unmap_area_sections comes to an entry that is
\* pmd_none it goes on to the next one and leaves the first-level entries,
\* kvm_seq and the leaf tables as they are; kvm_seq++ is executed once for
\* each entry that was cleared, after the pmd_clear; and pte_free_kernel is
\* called only for an entry that was read as a table pointer, never for a
\* section entry.
C16_EmptyEntrySkipped ==
    [][\A p \in Tasks :
         TeardownLine(p) =>
             /\ (/\ task[p].pc = "td_read"
                 /\ pmd_none(pmd[pmd_offset(task[p].addr)]))
                    => /\ UNCHANGED <<pmd, pte, kvm_seq, kvm_total>>
                       /\ task'[p].pc \in {"td_read", "td_sync"}
                       /\ task'[p].trace
                              = Append(task[p].trace,
                                       <<"skip", pgd_index(task[p].addr)>>)
             /\ pmd' # pmd
                    => /\ ~pmd_none(pmd[pmd_offset(task[p].addr)])
                       /\ task'[p].pc = "td_inc"
             /\ kvm_total' # kvm_total
                    => /\ kvm_total' = kvm_total + 1
                       /\ task[p].trace[Len(task[p].trace)][1] = "clear"
             /\ task'[p].pc \notin {"td_inc", "td_inc2"}
                    => Count(task'[p].trace, "inc")
                           = Count(task'[p].trace, "clear")
             /\ (pte' # pte \/ Count(task'[p].trace, "free")
                                  # Count(task[p].trace, "free"))
                    => /\ task[p].pc = "td_free"
                       /\ task[p].e.t = "table"
             /\ task'[p].pc = "td_free" => task[p].e.t = "table"]_vars

\* a section mapping has returned whose teardown came to an empty entry,
\* after an earlier teardown had cleared one
C16_SkippedAfterClear ==
    /\ last.op = "ioremap" /\ last.gran = "section" /\ last.ret # NULL
    /\ Has(last.log, "skip")
    /\ ~Has(last.log, "clear")
    /\ kvm_total >= 1

\* ------------------------------------------------------------ C17
\* task p is between the first line of a block teardown and the last store
\* of the section entries that follow it
InBlockMapper(p) == task[p].pc \in TdPcs \cup {"sect0", "sect1"}

\* every section entry lies in a reserved area tagged VM_ARM_SECTION_MAPPING
BlockEntriesOwned(pm, vm) ==
    \A s \in SectIdx :
        pm[s].t \in {"sect", "super"} =>
            \E a \in vm : /\ a.block
                          /\ a.addr <= s * SZ_1M
                          /\ (s + 1) * SZ_1M <= a.addr + a.size

\* C17, the part about __iounmap: the teardown of a tagged area runs with
\* vmlist_lock held for writing and is over before vunmap releases the
\* area, so no section entry is ever found outside a reserved, tagged area;
\* the lock is held by nobody but a task between lines 468 and 478; and
\* every __iounmap that returns has released the area it was called for.
C17_ClearedBeforeRelease ==
    [][/\ BlockEntriesOwned(pmd', vmlist')
       /\ \A p \in Tasks :
              /\ vmlist_lock' = p
                     => /\ task'[p].op = "iounmap"
                        /\ task'[p].pc \in TdPcs \cup {"un_find", "un_unlock"}
              /\ (task'[p].op = "iounmap" /\ task'[p].pc \in TdPcs)
                     => vmlist_lock' = p
              /\ (task[p].op = "iounmap" /\ task'[p].pc = "idle")
                     => /\ task[p].pc = "un_vunmap"
                        /\ vmlist_lock' # p
                        /\ \A a \in vmlist' : a.addr # task[p].base]_vars

\* C17 as written: the part about __iounmap, and a task inside the block
\* mapper on behalf of __arm_ioremap holds vmlist_lock too, so that no two
\* tasks are inside the block mapper at once.
C17_BlockMapperSerialized ==
    \A p \in Tasks :
        InBlockMapper(p) =>
            /\ vmlist_lock = p
            /\ \A q \in Tasks \ {p} : ~InBlockMapper(q)

\* ------------------------------------------------------------ C18
\* no __check_kvm_seq is under way (a call of SpecGen is one step)
Quiescent == \A mm \in MMs : rf[mm].pc = "idle"

UpToDate(mm) == mm_seq[mm] = kvm_seq

SectsOf(lo, len) ==
    {s \in SectIdx : \E va \in lo..(lo + len - 1) : pgd_index(va) = s \div 2}
PagesOf(lo, len) ==
    {p \in PageIdx : lo <= p * PAGE_SIZE /\ p * PAGE_SIZE < lo + len}

\* every section entry among ss is a whole megabyte of [lo, lo + len)
SectionsInside(pm, ss, lo, len) ==
    \A s \in ss :
        pm[s].t \in {"sect", "super"} =>
            lo <= s * SZ_1M /\ (s + 1) * SZ_1M <= lo + len

\* C19: a call of __arm_ioremap, __arm_ioremap_pfn or
\* __arm_multi_strided_ioremap touches and
\* changes no first-level entry and no leaf entry but those that serve an
\* address of the area it reserved, [base, base + size), and the section
\* entries it leaves lie wholly inside it; a call that reserved no area
\* changes nothing; and each step of __arm_multi_strided_ioremap keeps in the
\* same way to its window [addr_i, addr_i + vstride).
C19_WritesInsideReservation ==
    [][(/\ ncalls' = ncalls + 1
        /\ last'.op \in {"ioremap", "ioremap_pfn", "strided"}) =>
         IF last'.base = NULL
         THEN pmd' = pmd /\ pte' = pte /\ last'.touched = {}
         ELSE /\ last'.touched \cup {s \in SectIdx : pmd'[s] # pmd[s]}
                     \subseteq SectsOf(last'.base, last'.asize)
              /\ {p \in PageIdx : pte'[p] # pte[p]}
                     \subseteq PagesOf(last'.base, last'.asize)
              /\ SectionsInside(pmd', last'.touched, last'.base, last'.asize)
              /\ wild' = wild
              /\ \A k \in 1..Len(last'.log) :
                     LET st == last'.log[k]
                     IN  /\ st.touched \subseteq SectsOf(st.addr, st.vstride)
                         /\ st.pages \subseteq PagesOf(st.addr, st.vstride)
                         /\ st.gran # "page" =>
                                st.touched
                                    = {s \in SectIdx :
                                          /\ st.addr <= s * SZ_1M
                                          /\ (s + 1) * SZ_1M
                                                 <= st.addr + st.vstride}
                         /\ st.addr >= last'.base
                         /\ st.addr + st.vstride
                                <= last'.base + last'.asize]_vars

\* __arm_multi_strided_ioremap has returned an area of two steps or more,
\* one of them a section step, each of which wrote entries of its window
C19_StridedStepsTaken ==
    /\ last.op = "strided" /\ last.ret # NULL
    /\ Len(last.log) >= 2
    /\ \E k \in 1..Len(last.log) :
           /\ last.log[k].gran = "section"
           /\ last.log[k].touched # {}
    /\ \A k \in 1..Len(last.log) :
           /\ last.log[k].vstride < last.asize
           /\ last.log[k].touched \cup last.log[k].pages # {}

\* ------------------------------------------------------------ C20
\* what __iounmap of the area at base, of size bytes with its guard page,
\* has done between two states: every first-level entry it changed has its
\* whole span inside the area, and the entries of the areas still reserved
\* are as they were
UnmapKeepsToArea(base, size) ==
    /\ \A s \in SectIdx :
           pmd'[s] # pmd[s] =>
               /\ base <= (s \div 2) * PGDIR_SIZE
               /\ ((s \div 2) + 1) * PGDIR_SIZE <= base + size
    /\ \A b \in vmlist' :
           /\ \A s \in SectsOf(b.addr, b.size - PAGE_SIZE) : pmd'[s] = pmd[s]
           /\ \A p \in PagesOf(b.addr, b.size - PAGE_SIZE) : pte'[p] = pte[p]

\* the area at base holds section entries and a page table at once (C7)
MixedArea(base) ==
    \E a \in vmlist :
        /\ a.addr = base
        /\ "table" \in AreaKinds(a)
        /\ AreaKinds(a) \cap {"sect", "super"} # {}

\* C20: __iounmap of an area clears only first-level entries whose whole span
\* lies inside that area, and leaves every first-level and leaf entry of
\* every other reserved area unchanged.  Fails through C7: in an area of
\* __arm_multi_strided_ioremap that has section steps and page steps the
\* teardown takes the page steps' table with it, and that table serves the
\* neighbouring area as well.
C20_UnmapKeepsToArea ==
    [][(ncalls' = ncalls + 1 /\ last'.op = "iounmap") =>
         UnmapKeepsToArea(last'.base, last'.asize + PAGE_SIZE)]_vars

\* C20 for the areas that are not mixed.
C20_UnmapOfUnmixedKeepsToArea ==
    [][(/\ ncalls' = ncalls + 1
        /\ last'.op = "iounmap"
        /\ ~MixedArea(last'.base)) =>
         UnmapKeepsToArea(last'.base, last'.asize + PAGE_SIZE)]_vars

====
